---- MODULE Spec2Model ----
(***************************************************************************)
(* rFXGen (src/src/rfxgen.old.c): wave parameters, their .rfx             *)
(* persistence, the preset generators and the GenerateWave render loop.   *)
(*                                                                         *)
(* Numbers.  A C float or double is modelled as an integer count of       *)
(* 1/Unit (0.3f is 300), results truncated toward minus infinity at that  *)
(* resolution; NaN is an explicit value with IEEE propagation.  C ints    *)
(* are integers.                                                           *)
(***************************************************************************)
EXTENDS Integers, Sequences, FiniteSets, TLC

VARIABLES
    params,         \* static WaveParams params (the current parameters)
    regenerate,     \* static bool regenerate
    randState,      \* state of the C library generator behind rand()/srand()
    disk,           \* content of the one parameter file, a byte sequence, or NoFile
    diag,           \* message printed by the last LoadWaveParams call
    saved,          \* history: record written by the SaveWaveParams whose file is on disk
    op,             \* history: the last operation that ran
    pc,             \* where GenerateWave stands: "idle", "loop", "crashed"
    gw,             \* the scalar locals of the running GenerateWave call
    phaserBuffer,   \* float phaserBuffer[1024]
    noiseBuffer,    \* float noiseBuffer[32]
    buffer,         \* the samples written to float *buffer, in order
    produced,       \* history: how many samples the loop of this call has written
    nullWrite,      \* history: this call wrote through a pointer calloc returned as NULL
    wave,           \* Wave wave of the caller: the last wave returned
    prev,           \* history: the wave returned by the call before
    calls,          \* history: how many GenerateWave calls have returned
    gens,           \* history: how many generator functions have run
    volumeValue,    \* static float volumeValue
    source,         \* history: what the random source held when the last generator
                    \* function was entered
    frame,          \* where the main loop stands in its frame: "drop", "keys", "export",
                    \* "regenerate", "gui"
    cli             \* ProcessCommandLine: the last --format argument (its text, and as
                    \* history the integers it was written from), how many were
                    \* processed, the conversion target, the warnings printed

fileVars == << disk, diag, saved >>
renderVars == << pc, gw, phaserBuffer, noiseBuffer, buffer, produced, nullWrite,
                 wave, prev, calls >>
vars == << params, regenerate, randState, disk, diag, saved, op,
           pc, gw, phaserBuffer, noiseBuffer, buffer, produced, nullWrite,
           wave, prev, calls, gens, volumeValue, cli, source, frame >>

Unit == 10^3

----------------------------------------------------------------------------
(* WaveParams                                                              *)

\* the members of struct WaveParams in declaration order (24 words, 96 bytes)
FieldOrder ==
    << "randSeed", "waveTypeValue",
       "attackTimeValue", "sustainTimeValue", "sustainPunchValue", "decayTimeValue",
       "startFrequencyValue", "minFrequencyValue", "slideValue", "deltaSlideValue",
       "vibratoDepthValue", "vibratoSpeedValue",
       "changeAmountValue", "changeSpeedValue",
       "squareDutyValue", "dutySweepValue",
       "repeatSpeedValue",
       "phaserOffsetValue", "phaserSweepValue",
       "lpfCutoffValue", "lpfCutoffSweepValue", "lpfResonanceValue",
       "hpfCutoffValue", "hpfCutoffSweepValue" >>

FieldNames == { FieldOrder[k] : k \in 1..Len(FieldOrder) }

\* WaveParams params = { 0 };
ZeroParams == [ f \in FieldNames |-> 0 ]

\* ResetWaveParams's assignments other than the seed (lines 838-876)
DefaultParams(seed) ==
    [ ZeroParams EXCEPT
        !.randSeed = seed,
        !.waveTypeValue = 0,
        !.attackTimeValue = 0,
        !.sustainTimeValue = 300,
        !.sustainPunchValue = 0,
        !.decayTimeValue = 400,
        !.startFrequencyValue = 300,
        !.lpfCutoffValue = 1000 ]

----------------------------------------------------------------------------
(* The shared pseudo-random generator                                      *)

\* rand() of the C library: implementation-defined; a full-period linear
\* congruential generator with RAND_MAX = 32767.  The result is the new state.
rand(s) == (25173 * s + 13849) % 32768

\* srand(seed): the state the generator restarts from
srand(seed) == seed % 32768

\* raylib GetRandomValue(min, max): rand()%(abs(max - min) + 1) + min
GetRandomValue(s, min, max) == (rand(s) % ((max - min) + 1)) + min

\* frnd(range): (float)GetRandomValue(0, 10000)/10000.0f*range, range in 1/Unit
frnd(s, range) == (GetRandomValue(s, 0, 10000) * range) \div 10000

----------------------------------------------------------------------------
(* Persistence: the .rfx file                                              *)

NoFile == << -1 >>
NoRecord == [ f \in {"none"} |-> 0 ]

\* fwrite of one 4-byte member: the little-endian bytes of its 32-bit pattern
WordBytes(v) ==
    << v % 256, (v \div 256) % 256, (v \div 65536) % 256, (v \div 16777216) % 256 >>

\* the member read back with its top byte taken as unsigned
BytesWord_Unsigned(b) ==
    b[1] + 256 * b[2] + 65536 * b[3] + 16777216 * (b[4] % 128)

\* fread into one 4-byte member
BytesWord(b) ==
    b[1] + 256 * b[2] + 65536 * b[3]
      + 16777216 * (IF b[4] < 128 THEN b[4] ELSE b[4] - 256)

RECURSIVE RecordBytes(_, _)
\* fwrite(&params, 1, sizeof(WaveParams), rfxFile): the members from the k-th on
RecordBytes(p, k) ==
    IF k > Len(FieldOrder) THEN << >>
    ELSE WordBytes(p[FieldOrder[k]]) \o RecordBytes(p, k + 1)

\* the bytes fread delivers for n bytes at offset off (0-based); a short file
\* delivers fewer, and the destination keeps its former bytes there
ReadAt(f, off, n, former) ==
    [ j \in 1..n |-> IF off + j <= Len(f) THEN f[off + j] ELSE former[j] ]

TOOL_VERSION_TEXT_BINARY == 120

\* unsigned char signature[5] = "rFX ";
Signature == << 114, 70, 88, 32 >>

\* SaveWaveParams, .rfx branch with fopen succeeding (lines 1357-1371)
RfxBytes(p) ==
    Signature \o WordBytes(TOOL_VERSION_TEXT_BINARY) \o RecordBytes(p, 1)

\* fread(&params, 1, sizeof(WaveParams), rfxFile) into the zeroed record (line 1274)
ReadRecord(f) ==
    [ name \in FieldNames |->
        LET k == CHOOSE i \in 1..Len(FieldOrder) : FieldOrder[i] = name
        IN  BytesWord(ReadAt(f, 8 + 4 * (k - 1), 4, << 0, 0, 0, 0 >>)) ]

\* the values an int left uninitialized by a short fread may hold
GarbageVersions == { 0, 100, TOOL_VERSION_TEXT_BINARY }

\* the load that takes the record of every version but the superseded one
LoadRfx_AnyOtherVersion(f, version) ==
    IF f = NoFile
    THEN [ params |-> ZeroParams, diag |-> "none" ]
    ELSE IF ReadAt(f, 0, 4, << 0, 0, 0, 0 >>) = Signature
         THEN IF version = 100
              THEN [ params |-> ZeroParams, diag |-> "Wrong rFX file version" ]
              ELSE [ params |-> ReadRecord(f), diag |-> "none" ]
         ELSE [ params |-> ZeroParams, diag |-> "rFX file does not seem to be valid" ]

\* LoadWaveParams, .rfx branch (lines 1251-1283): the record returned and the
\* message printed, for the version the 4-byte read left in `version`
LoadRfx(f, version) ==
    IF f = NoFile
    THEN [ params |-> ZeroParams, diag |-> "none" ]
    ELSE IF ReadAt(f, 0, 4, << 0, 0, 0, 0 >>) = Signature
         THEN IF version = 100
              THEN [ params |-> ZeroParams, diag |-> "Wrong rFX file version" ]
              ELSE IF version = 120
                   THEN [ params |-> ReadRecord(f), diag |-> "none" ]
                   ELSE [ params |-> ZeroParams, diag |-> "none" ]
         ELSE [ params |-> ZeroParams, diag |-> "rFX file does not seem to be valid" ]

\* the values `version` can hold after fread(&version, 1, sizeof(int), rfxFile)
VersionRead(f) ==
    IF f # NoFile /\ Len(f) >= 8
    THEN { BytesWord(ReadAt(f, 4, 4, << 0, 0, 0, 0 >>)) }
    ELSE GarbageVersions

\* parameter files the environment can put on disk: a foreign signature, the
\* superseded and two unknown versions, a current file, and two short files
ForeignRecord == [ DefaultParams(4660) EXCEPT !.slideValue = -350, !.waveTypeValue = 3 ]

ForeignFiles ==
    { << 88, 89, 90, 32 >> \o WordBytes(120) \o RecordBytes(ForeignRecord, 1),
      Signature \o WordBytes(100) \o RecordBytes(ForeignRecord, 1),
      Signature \o WordBytes(110) \o RecordBytes(ForeignRecord, 1),
      Signature \o WordBytes(200) \o RecordBytes(ForeignRecord, 1),
      Signature \o WordBytes(120) \o RecordBytes(ForeignRecord, 1),
      Signature \o WordBytes(120) \o SubSeq(RecordBytes(ForeignRecord, 1), 1, 10),
      Signature }

\* values a slider or the wave-type toggle can leave in a member (lines 503-558)
SliderFields == { "sustainTimeValue", "slideValue", "waveTypeValue" }
SliderValues(name) ==
    IF name = "waveTypeValue" THEN 0..3
    ELSE IF name = "slideValue" THEN { -1000, 0, 1000 }
    ELSE { 0, 1000 }

\* no GenerateWave call is running and none has returned
\* no command line is being processed
NoCli == [ arg |-> << >>, given |-> << >>, i |-> 0,
           sampleRate |-> 44100, sampleSize |-> 16, channels |-> 1,
           out |-> << >> ]
NoSource == << >>
NoLocals == [ i |-> 0, bufferNull |-> FALSE, generatingSample |-> TRUE ]
NoWave == [ sampleCount |-> 0, data |-> << >>, null |-> TRUE ]

RenderIdle ==
    /\ volumeValue = 600
    /\ source = NoSource
    /\ frame = "drop"
    /\ cli = NoCli
    /\ pc = "idle"
    /\ gw = NoLocals
    /\ phaserBuffer = << >>
    /\ noiseBuffer = << >>
    /\ buffer = << >>
    /\ produced = 0
    /\ nullWrite = FALSE
    /\ wave = NoWave
    /\ prev = NoWave
    /\ calls = 0
    /\ gens = 0

FileInit ==
    /\ RenderIdle
    /\ params \in { DefaultParams(1), [ DefaultParams(65534) EXCEPT !.decayTimeValue = -50 ] }
    /\ regenerate = FALSE
    /\ randState = 0
    /\ disk = NoFile
    /\ diag = "none"
    /\ saved = NoRecord
    /\ op = "init"

\* DialogSaveSound -> SaveWaveParams(params, outFileName) (lines 1287-1374, 1408)
SaveWaveParams ==
    /\ \E opened \in BOOLEAN :
         /\ disk' = IF opened THEN RfxBytes(params) ELSE disk
         /\ saved' = IF opened THEN params ELSE saved
         /\ op' = IF opened THEN "save" ELSE "save_failed"
    /\ UNCHANGED << source, frame, volumeValue, cli, params, regenerate, randState, diag, renderVars, gens >>

\* params = LoadWaveParams(fileName); regenerate = true (lines 1186-1284, 1385-1386)
LoadWaveParams ==
    /\ \E opened \in { o \in BOOLEAN : o => disk # NoFile } :
       \E version \in VersionRead(disk) :
         LET r == LoadRfx(IF opened THEN disk ELSE NoFile, version)
         IN  /\ params' = r.params
             /\ diag' = r.diag
             /\ op' = IF opened THEN "load" ELSE "load_failed"
    /\ regenerate' = TRUE
    /\ UNCHANGED << source, frame, volumeValue, cli, randState, disk, saved, renderVars, gens >>

\* another program writes the parameter file
ForeignFile ==
    /\ \E f \in ForeignFiles : disk' = f
    /\ saved' = NoRecord
    /\ op' = "foreign"
    /\ UNCHANGED << source, frame, volumeValue, cli, params, regenerate, randState, diag, renderVars, gens >>

\* a slider or the wave-type toggle of the main loop changes one member
SliderEdit ==
    /\ \E name \in SliderFields : \E v \in SliderValues(name) :
         /\ params[name] # v
         /\ params' = [ params EXCEPT ![name] = v ]
         /\ regenerate' = (regenerate \/ name = "waveTypeValue")
    /\ op' = "edit"
    /\ UNCHANGED << source, frame, volumeValue, cli, randState, disk, diag, saved, renderVars, gens >>

FileNext == SaveWaveParams \/ LoadWaveParams \/ ForeignFile \/ SliderEdit

SpecFile == FileInit /\ [][FileNext]_vars

----------------------------------------------------------------------------
(* Claims on persistence                                                   *)

\* the file on disk has a complete 8-byte header
HasHeader == disk # NoFile /\ Len(disk) >= 8
DiskSignature == SubSeq(disk, 1, 4)
DiskVersion == BytesWord(SubSeq(disk, 5, 8))

C6_RejectedIsZero ==
    (op = "load" /\ HasHeader
       /\ (DiskSignature # Signature \/ DiskVersion # 120))
    => params = ZeroParams

\* C6 witness: a file with signature "XYZ " and one with version 200 were
\* loaded over non-zero parameters.
C6_Witness ==
    /\ op = "load"
    /\ HasHeader
    /\ DiskSignature # Signature \/ DiskVersion = 200
    /\ Len(disk) > 8
    /\ params = ZeroParams

\* C7: every load that rejects its file prints a diagnostic, for a foreign
\* signature and for every version other than 120.
C7_RejectedIsReported ==
    (op = "load" /\ HasHeader
       /\ (DiskSignature # Signature \/ DiskVersion # 120))
    => diag # "none"

----------------------------------------------------------------------------
(* Arithmetic of the render.  Parameters and periods count 1/Unit, the     *)
(* working state of the engine (factors, cutoffs, duty, volume, samples)   *)
(* counts 1/Micro.  The operators below keep every intermediate product    *)
(* inside 32 bits.                                                         *)

Micro == 10^6

\* the not-a-number of IEEE arithmetic (0.0f/0) and the positive infinity
NaN == 0 - 2147483647
Inf == 0 + 2147483646

\* a*b/Micro for factors too large to multiply directly
MulMicro(a, b) ==
    LET qa == a \div 1000  ra == a % 1000
        qb == b \div 1000  rb == b % 1000
    IN  qa * qb + ((qa * rb + ra * qb + ((ra * rb) \div 1000)) \div 1000)

\* n/d in 1/Micro for integers n >= 0, d > 0
Ratio(n, d) ==
    LET r0 == n % d
        q1 == (r0 * 1000) \div d
        r1 == (r0 * 1000) % d
    IN  (n \div d) * Micro + q1 * 1000 + ((r1 * 1000) \div d)

\* (float)n/d of two ints, n >= 0: IEEE gives NaN for 0/0 and +inf for n/0
FDiv(n, d) ==
    IF d = 0 THEN (IF n = 0 THEN NaN ELSE Inf) ELSE Ratio(n, d)

\* x*v where v may be NaN or infinite (x finite)
FMul(x, v) ==
    IF v = NaN THEN NaN
    ELSE IF v = Inf \/ v = 0 - Inf
         THEN (IF x = 0 THEN NaN ELSE IF x > 0 THEN v ELSE 0 - v)
         ELSE MulMicro(x, v)

\* x + y where either may be NaN or infinite
FAdd(x, y) ==
    IF x = NaN \/ y = NaN THEN NaN
    ELSE IF x = Inf \/ x = 0 - Inf
         THEN (IF y = 0 - x THEN NaN ELSE x)
         ELSE IF y = Inf \/ y = 0 - Inf THEN y ELSE x + y

\* sinf of `turn` revolutions (1/Micro), by a 16-step table of one revolution
SinTable ==
    << 0, 382683, 707107, 923880, 1000000, 923880, 707107, 382683,
       0, -382683, -707107, -923880, -1000000, -923880, -707107, -382683, 0 >>

SinTurn(turn) ==
    LET t == turn % Micro
        k == (t * 16) \div Micro
        f == ((t * 16) % Micro) \div 1000
    IN  SinTable[k + 1] + (((SinTable[k + 2] - SinTable[k + 1]) * f) \div 1000)

\* sinf(x) for x radians in 1/Micro: 1/(2*PI) revolutions per radian
SinRad(x) == SinTurn(MulMicro(x, 159155))

\* 100.0/(f*f + 0.001) in 1/Unit (lines 934, 936, 1004, 1006)
PeriodOf(f) ==
    LET x == f * f + 1000
    IN  (10^9 \div x) * 100 + (((10^9 % x) * 100) \div x)

\* (int)(pow(1.0f - speed, 2.0f)*20000 + 32) (lines 945, 976, 1016)
LimitOf(speed) == (((1000 - speed) * (1000 - speed)) \div 50) + 32

\* the frequency state that GenerateWave computes at entry and again at each
\* repeat (lines 934-947 and 1004-1018), from the clamped copy p
ResetFrequency(g, p) ==
    [ g EXCEPT
        !.fperiod = PeriodOf(p.startFrequencyValue),
        !.period = PeriodOf(p.startFrequencyValue) \div 1000,
        !.fmaxperiod = PeriodOf(p.minFrequencyValue),
        !.fslide = Micro - ((p.slideValue * p.slideValue * p.slideValue) \div 100000),
        !.fdslide = 0 - (((p.deltaSlideValue * p.deltaSlideValue) \div 1000)
                            * p.deltaSlideValue) \div Micro,
        !.squareDuty = 500000 - p.squareDutyValue * 500,
        !.squareSlide = (0 - p.dutySweepValue * 5) \div 100,
        !.arpeggioModulation =
            IF p.changeAmountValue >= 0
            THEN Micro - ((p.changeAmountValue * p.changeAmountValue * 9) \div 10)
            ELSE Micro + p.changeAmountValue * p.changeAmountValue * 10,
        !.arpeggioLimit =
            IF p.changeSpeedValue = 1000 THEN 0 ELSE LimitOf(p.changeSpeedValue) ]

\* the render run on the record as stored
ClampParams_None(p) == p

\* HACK: Security check to avoid crash (lines 929-930), on the by-value copy
ClampParams(p) ==
    LET q == IF p.minFrequencyValue > p.startFrequencyValue
             THEN [ p EXCEPT !.minFrequencyValue = p.startFrequencyValue ] ELSE p
    IN  IF q.slideValue < q.deltaSlideValue
        THEN [ q EXCEPT !.slideValue = q.deltaSlideValue ] ELSE q

RECURSIVE NoiseDraw(_, _)
\* for (i < 32) noiseBuffer[i] = GetRandomFloat(2.0f) - 1.0f (lines 974, 1102):
\* the k values drawn from generator state s, and the state left behind
NoiseDraw(s, k) ==
    IF k = 0 THEN [ noise |-> << >>, rs |-> s ]
    ELSE LET v == GetRandomValue(s, 0, 10000) * 200 - Micro
             rest == NoiseDraw(rand(s), k - 1)
         IN  [ noise |-> << v >> \o rest.noise, rs |-> rest.rs ]

\* 5.0f/(1.0f + pow(res, 2.0f)*20.0f)*(0.01f + fltw), at most 0.8f (lines 952-953)
Damping(res, fltw) ==
    LET d == 1000 + ((res * res * 20) \div 1000)
        a == (10^9 \div d) * 5 + (((10^9 % d) * 5) \div d)
        v == MulMicro(a, 10000 + fltw)
    IN  IF v > 800000 THEN 800000 ELSE v

\* GenerateWave from its entry to the loop (lines 889-985): the scalar locals
\* for the argument p0 (the two arrays are the variables phaserBuffer and
\* noiseBuffer)
GenerateWaveInit(p0, alloc) ==
    LET p == ClampParams(p0)
        fltw0 == (p.lpfCutoffValue * p.lpfCutoffValue * p.lpfCutoffValue) \div 10000
        fph == (p.phaserOffsetValue * p.phaserOffsetValue * 1020) \div 1000
        fdph == (p.phaserSweepValue * p.phaserSweepValue) \div 1000
        fphase0 == IF p.phaserOffsetValue < 0 THEN 0 - fph ELSE fph
        base ==
          [ params |-> p,
            phase |-> 0, fperiod |-> 0, fmaxperiod |-> 0, fslide |-> 0, fdslide |-> 0,
            period |-> 0, squareDuty |-> 0, squareSlide |-> 0,
            envelopeStage |-> 0, envelopeTime |-> 0,
            envelopeLength |->
                << (p.attackTimeValue * p.attackTimeValue) \div 10,
                   (p.sustainTimeValue * p.sustainTimeValue) \div 10,
                   (p.decayTimeValue * p.decayTimeValue) \div 10 >>,
            envelopeVolume |-> 0,
            fphase |-> fphase0,
            fdphase |-> IF p.phaserSweepValue < 0 THEN 0 - fdph ELSE fdph,
            iphase |-> (IF fphase0 < 0 THEN 0 - fphase0 ELSE fphase0) \div 1000,
            ipp |-> 0,
            fltp |-> 0, fltdp |-> 0,
            fltw |-> fltw0,
            fltwd |-> Micro + (p.lpfCutoffSweepValue \div 10),
            fltdmp |-> Damping(p.lpfResonanceValue, fltw0),
            fltphp |-> 0,
            flthp |-> (p.hpfCutoffValue * p.hpfCutoffValue) \div 10,
            flthpd |-> Micro + ((3 * p.hpfCutoffSweepValue) \div 10),
            vibratoPhase |-> 0,
            vibratoSpeed |-> (p.vibratoSpeedValue * p.vibratoSpeedValue) \div 100,
            vibratoAmplitude |-> p.vibratoDepthValue * 500,
            repeatTime |-> 0,
            repeatLimit |-> IF p.repeatSpeedValue = 0 THEN 0 ELSE LimitOf(p.repeatSpeedValue),
            arpeggioTime |-> 0, arpeggioLimit |-> 0, arpeggioModulation |-> 0,
            bufferNull |-> (alloc = "NULL"),
            generatingSample |-> TRUE, sampleCount |-> 0, i |-> 0,
            ssample |-> 0 ]
    IN  ResetFrequency(base, p)

MAX_WAVE_LENGTH_SECONDS == 10
WAVE_SAMPLE_RATE == 44100
MAX_SUPERSAMPLING == 8

\* the loop bound MAX_WAVE_LENGTH_SECONDS*WAVE_SAMPLE_RATE (lines 983, 987)
MaxSamples == MAX_WAVE_LENGTH_SECONDS * WAVE_SAMPLE_RATE

\* (int)x for x in 1/Unit: C truncates toward zero
IntOf(x) == IF x >= 0 THEN x \div 1000 ELSE 0 - ((0 - x) \div 1000)

\* a repeat reset that also starts the envelope again
RepeatReset_Retrigger(g) ==
    [ ResetFrequency(g, g.params) EXCEPT !.repeatTime = 0, !.arpeggioTime = 0,
                                         !.envelopeTime = 0, !.envelopeStage = 0 ]

\* a repeat reset that lets arpeggioTime run on
RepeatReset_KeepsToneTime(g) ==
    [ ResetFrequency(g, g.params) EXCEPT !.repeatTime = 0 ]

\* the body of the repeat reset (lines 999-1018)
RepeatReset(g) ==
    [ ResetFrequency(g, g.params) EXCEPT !.repeatTime = 0, !.arpeggioTime = 0 ]

\* the iteration with the tone change left armed after it is applied
StepFrequency_StaysArmed(g) ==
    LET p == g.params
        g1 == [ g EXCEPT !.repeatTime = @ + 1 ]
        g2 == IF g1.repeatLimit # 0 /\ g1.repeatTime >= g1.repeatLimit
              THEN RepeatReset(g1)
              ELSE g1
        g3 == [ g2 EXCEPT !.arpeggioTime = @ + 1 ]
        g4 == IF g3.arpeggioLimit # 0 /\ g3.arpeggioTime >= g3.arpeggioLimit
              THEN [ g3 EXCEPT !.fperiod = MulMicro(@, g3.arpeggioModulation) ]
              ELSE g3
        fs == g4.fslide + g4.fdslide
        fp == MulMicro(g4.fperiod, fs)
    IN  [ g4 EXCEPT
            !.fslide = fs,
            !.fperiod = IF fp > g4.fmaxperiod THEN g4.fmaxperiod ELSE fp,
            !.generatingSample =
                IF fp > g4.fmaxperiod /\ p.minFrequencyValue > 0 THEN FALSE ELSE @ ]

\* repeat and arpeggio of one iteration (lines 997-1028)
StepTone(g) ==
    LET g1 == [ g EXCEPT !.repeatTime = @ + 1 ]
        g2 == IF g1.repeatLimit # 0 /\ g1.repeatTime >= g1.repeatLimit
              THEN RepeatReset(g1)
              ELSE g1
        g3 == [ g2 EXCEPT !.arpeggioTime = @ + 1 ]
    IN  IF g3.arpeggioLimit # 0 /\ g3.arpeggioTime >= g3.arpeggioLimit
        THEN [ g3 EXCEPT !.arpeggioLimit = 0,
                         !.fperiod = MulMicro(@, g3.arpeggioModulation) ]
        ELSE g3

\* the iteration with the floor stopping the render whatever minFrequencyValue
StepFrequency_AnyFloorStops(g) ==
    LET g4 == StepTone(g)
        fs == g4.fslide + g4.fdslide
        fp == MulMicro(g4.fperiod, fs)
    IN  [ g4 EXCEPT
            !.fslide = fs,
            !.fperiod = IF fp > g4.fmaxperiod THEN g4.fmaxperiod ELSE fp,
            !.generatingSample = IF fp > g4.fmaxperiod THEN FALSE ELSE @ ]

\* repeat, arpeggio, slide and frequency floor of one iteration (lines 997-1038)
StepFrequency(g) ==
    LET p == g.params
        g4 == StepTone(g)
        fs == g4.fslide + g4.fdslide
        fp == MulMicro(g4.fperiod, fs)
    IN  [ g4 EXCEPT
            !.fslide = fs,
            !.fperiod = IF fp > g4.fmaxperiod THEN g4.fmaxperiod ELSE fp,
            !.generatingSample =
                IF fp > g4.fmaxperiod /\ p.minFrequencyValue > 0 THEN FALSE ELSE @ ]

\* the period taken without the floor of line 1050
StepPeriod_NoFloor(g) ==
    LET per == IntOf(g.fperiod)
        duty == g.squareDuty + g.squareSlide
    IN  [ g EXCEPT
            !.period = per,
            !.squareDuty = IF duty < 0 THEN 0 ELSE IF duty > 500000 THEN 500000 ELSE duty ]

\* the duty swept without the clamps of lines 1054-1055
StepPeriod_NoDutyClamp(g) ==
    LET per == IntOf(g.fperiod)
    IN  [ g EXCEPT
            !.period = IF per < 8 THEN 8 ELSE per,
            !.squareDuty = g.squareDuty + g.squareSlide ]

\* vibrato, integer period and square duty of one iteration (lines 1040-1055)
StepPeriod(g) ==
    LET vib == g.vibratoAmplitude > 0
        vp == IF vib THEN g.vibratoPhase + g.vibratoSpeed ELSE g.vibratoPhase
        rf == IF vib
              THEN MulMicro(g.fperiod, Micro + MulMicro(SinRad(vp), g.vibratoAmplitude))
              ELSE g.fperiod
        per == IntOf(rf)
        duty == g.squareDuty + g.squareSlide
    IN  [ g EXCEPT
            !.vibratoPhase = vp,
            !.period = IF per < 8 THEN 8 ELSE per,
            !.squareDuty = IF duty < 0 THEN 0 ELSE IF duty > 500000 THEN 500000 ELSE duty ]

\* a stage left when its time reaches its length
StepEnvelope_AtLength(g) ==
    IF g.envelopeTime + 1 >= g.envelopeLength[g.envelopeStage + 1]
    THEN [ g EXCEPT !.envelopeTime = 0, !.envelopeStage = @ + 1,
                    !.generatingSample = IF g.envelopeStage + 1 = 3 THEN FALSE ELSE @ ]
    ELSE [ g EXCEPT !.envelopeTime = @ + 1 ]

\* the last stage left without clearing generatingSample
StepEnvelope_NoStop(g) ==
    IF g.envelopeTime + 1 > g.envelopeLength[g.envelopeStage + 1]
    THEN [ g EXCEPT !.envelopeTime = 0, !.envelopeStage = @ + 1 ]
    ELSE [ g EXCEPT !.envelopeTime = @ + 1 ]

\* envelope time and stage of one iteration (lines 1057-1066)
StepEnvelope(g) ==
    IF g.envelopeTime + 1 > g.envelopeLength[g.envelopeStage + 1]
    THEN [ g EXCEPT !.envelopeTime = 0,
                    !.envelopeStage = @ + 1,
                    !.generatingSample = IF g.envelopeStage + 1 = 3 THEN FALSE ELSE @ ]
    ELSE [ g EXCEPT !.envelopeTime = @ + 1 ]

\* 1.0f - r for a ratio r that may be NaN or infinite
OneMinus(r) ==
    IF r = NaN THEN NaN ELSE IF r = Inf THEN 0 - Inf ELSE Micro - r

\* the phaser step without the bound of line 1076
StepVolume_NoDelayBound(g) ==
    LET t == g.envelopeTime
        len == g.envelopeLength
        vol == IF g.envelopeStage = 0 THEN FDiv(t, len[1])
               ELSE IF g.envelopeStage = 1
                    THEN FAdd(Micro, FMul(2000 * g.params.sustainPunchValue,
                                          OneMinus(FDiv(t, len[2]))))
                    ELSE IF g.envelopeStage = 2 THEN OneMinus(FDiv(t, len[3]))
                         ELSE g.envelopeVolume
        fph == g.fphase + g.fdphase
        iph == (IF fph < 0 THEN 0 - fph ELSE fph) \div 1000
        hp == MulMicro(g.flthp, g.flthpd)
    IN  [ g EXCEPT
            !.envelopeVolume = vol,
            !.fphase = fph,
            !.iphase = iph,
            !.flthp = IF g.flthpd # 0
                      THEN (IF hp < 10 THEN 10 ELSE IF hp > 100000 THEN 100000 ELSE hp)
                      ELSE @ ]

\* envelope volume, phaser step and high-pass cutoff sweep (lines 1068-1083)
StepVolume(g) ==
    LET t == g.envelopeTime
        len == g.envelopeLength
        vol == IF g.envelopeStage = 0 THEN FDiv(t, len[1])
               ELSE IF g.envelopeStage = 1
                    THEN FAdd(Micro, FMul(2000 * g.params.sustainPunchValue,
                                          OneMinus(FDiv(t, len[2]))))
                    ELSE IF g.envelopeStage = 2 THEN OneMinus(FDiv(t, len[3]))
                         ELSE g.envelopeVolume
        fph == g.fphase + g.fdphase
        iph == (IF fph < 0 THEN 0 - fph ELSE fph) \div 1000
        hp == MulMicro(g.flthp, g.flthpd)
    IN  [ g EXCEPT
            !.envelopeVolume = vol,
            !.fphase = fph,
            !.iphase = IF iph > 1023 THEN 1023 ELSE iph,
            !.flthp = IF g.flthpd # 0
                      THEN (IF hp < 10 THEN 10 ELSE IF hp > 100000 THEN 100000 ELSE hp)
                      ELSE @ ]

\* the base waveform at phase fraction fp (lines 1107-1121)
BaseWave(g, noise, fp) ==
    LET shape == g.params.waveTypeValue
    IN  IF shape = 0 THEN (IF fp < g.squareDuty THEN 500000 ELSE 0 - 500000)
        ELSE IF shape = 1 THEN Micro - 2 * fp
        ELSE IF shape = 2 THEN SinTurn(fp)
        ELSE IF shape = 3 THEN noise[((g.phase * 32) \div g.period) + 1]
        ELSE 0

\* one pass of the supersampling loop (lines 1092-1154) on the locals g, the
\* delay line pb, the noise table nb and the generator state s
SubSample(g, pb, nb, s) ==
    LET ph1 == g.phase + 1
        wrap == ph1 >= g.period
        ph == IF wrap THEN ph1 % g.period ELSE ph1
        redraw == wrap /\ g.params.waveTypeValue = 3
        drawn == NoiseDraw(s, 32)
        nb1 == IF redraw THEN drawn.noise ELSE nb
        s1 == IF redraw THEN drawn.rs ELSE s
        ga == [ g EXCEPT !.phase = ph ]
        sample0 == BaseWave(ga, nb1, Ratio(ph, g.period))
        pp == g.fltp
        w0 == MulMicro(g.fltw, g.fltwd)
        w == IF w0 < 0 THEN 0 ELSE IF w0 > 100000 THEN 100000 ELSE w0
        bypass == g.params.lpfCutoffValue = 1000
        dp0 == g.fltdp + MulMicro(sample0 - g.fltp, w)
        dp == IF bypass THEN 0 ELSE dp0 - MulMicro(dp0, g.fltdmp)
        lp == (IF bypass THEN sample0 ELSE g.fltp) + dp
        hp0 == g.fltphp + (lp - pp)
        hp == hp0 - MulMicro(hp0, g.flthp)
        widx == g.ipp % 1024
        pb1 == [ pb EXCEPT ![widx] = hp ]
        ridx == ((g.ipp - g.iphase) + 1024) % 1024
        sample == hp + pb1[ridx]
    IN  [ g |-> [ ga EXCEPT !.fltw = w, !.fltdp = dp, !.fltp = lp, !.fltphp = hp,
                            !.ipp = (g.ipp + 1) % 1024,
                            !.ssample = FAdd(@, FMul(sample, g.envelopeVolume)) ],
          pb |-> pb1, nb |-> nb1, rs |-> s1, widx |-> widx, ridx |-> ridx ]

RECURSIVE SuperSample(_, _)
\* for (si < MAX_SUPERSAMPLING) (lines 1090-1155): k passes still to run on x
SuperSample(x, k) ==
    IF k = 0 THEN x
    ELSE SuperSample(SubSample(x.g, x.pb, x.nb, x.rs), k - 1)

\* (ssample/MAX_SUPERSAMPLING)*SAMPLE_SCALE_COEFICIENT, then the two clamps
\* (lines 1159-1164); both comparisons are false for NaN
FinalSample(ss) ==
    LET v == IF ss = NaN \/ ss = Inf \/ ss = 0 - Inf THEN ss
             ELSE MulMicro(ss \div MAX_SUPERSAMPLING, 200000)
    IN  IF v = NaN THEN NaN
        ELSE IF v > Micro THEN Micro
        ELSE IF v < 0 - Micro THEN 0 - Micro ELSE v

\* one iteration of the render loop with generatingSample set (lines 995-1166)
Iteration(g, pb, nb, s) ==
    LET g1 == StepVolume(StepEnvelope(StepPeriod(StepFrequency(g))))
        x == SuperSample([ g |-> [ g1 EXCEPT !.ssample = 0 ],
                           pb |-> pb, nb |-> nb, rs |-> s ], MAX_SUPERSAMPLING)
    IN  [ x EXCEPT !.g.ssample = FinalSample(@), !.g.i = @ + 1 ]

----------------------------------------------------------------------------
(* GenerateWave, one loop iteration per step                                *)

MaxCalls == 2
MaxRandInit == 1

\* what calloc can return
AllocResults == { "ok", "NULL" }

\* states the generator can be in when a call starts (srand(time) at
\* InitWindow, then any number of draws by the generators)
RandInits == { (k * 7919 + 1) % 32768 : k \in 0..MaxRandInit }

\* the reseed left out: the call goes on with the state it finds
Reseed_Never(p, s) == s

\* if (params.randSeed != 0) srand(params.randSeed) (line 889): the generator
\* state the call goes on with
Reseed(p, s) == IF p.randSeed # 0 THEN srand(p.randSeed) ELSE s

\* GenerateWave from its entry to the loop (lines 881-985), calloc returning alloc
GenerateWaveBegin(alloc) ==
    /\ pc = "idle"
    /\ calls < MaxCalls
    /\ LET s0 == Reseed(params, randState)
           drawn == NoiseDraw(s0, 32)
       IN  /\ gw' = GenerateWaveInit(params, alloc)
           /\ noiseBuffer' = drawn.noise
           /\ randState' = drawn.rs
    /\ phaserBuffer' = [ k \in 0..1023 |-> 0 ]
    /\ buffer' = << >>
    /\ produced' = 0
    /\ nullWrite' = FALSE
    /\ pc' = "loop"
    /\ op' = "begin"
    /\ UNCHANGED << source, frame, volumeValue, cli, params, regenerate, fileVars, wave, prev, calls, gens >>

\* one iteration of the loop that passes the generatingSample test and writes
\* buffer[i] (lines 987-1167); a write through a NULL buffer is undefined: the
\* process is killed, or the platform does not trap and the store goes through
RenderStep ==
    /\ pc = "loop"
    /\ gw.i < MaxSamples
    /\ gw.generatingSample
    /\ \E trap \in { t \in BOOLEAN : t => gw.bufferNull } :
         IF trap
         THEN /\ pc' = "crashed"
              /\ nullWrite' = TRUE
              /\ UNCHANGED << source, frame, volumeValue, cli, gw, phaserBuffer, noiseBuffer, randState, buffer, produced >>
         ELSE LET x == Iteration(gw, phaserBuffer, noiseBuffer, randState)
              IN  /\ gw' = x.g
                  /\ phaserBuffer' = x.pb
                  /\ noiseBuffer' = x.nb
                  /\ randState' = x.rs
                  /\ buffer' = Append(buffer, x.g.ssample)
                  /\ produced' = produced + 1
                  /\ nullWrite' = (nullWrite \/ gw.bufferNull)
                  /\ pc' = pc
    /\ op' = "step"
    /\ UNCHANGED << source, frame, volumeValue, cli, params, regenerate, fileVars, wave, prev, calls, gens >>

\* the break taken without the assignment of line 991
SampleCountAtExit_Unset(g) == g.sampleCount

\* the wave returned with the capacity of the render buffer as its count
SampleCountAtExit_Capacity(g) == MaxSamples

\* the value of sampleCount after the loop: set by the break of lines 989-993,
\* left at its initial 0 when the loop runs to its bound
SampleCountAtExit(g) == IF g.i < MaxSamples THEN g.i ELSE g.sampleCount

\* the loop's exit and the rest of GenerateWave (lines 987-993, 1169-1183),
\* calloc of genWave.data returning alloc; memcpy into a NULL destination of
\* a non-zero size is undefined as above
GenerateWaveEnd(alloc) ==
    /\ pc = "loop"
    /\ gw.i >= MaxSamples \/ ~gw.generatingSample
    /\ LET sc == SampleCountAtExit(gw)
           bad == alloc = "NULL" /\ sc > 0
       IN  \E trap \in { t \in BOOLEAN : t => bad } :
             IF trap
             THEN /\ pc' = "crashed"
                  /\ nullWrite' = TRUE
                  /\ UNCHANGED << source, frame, volumeValue, cli, gw, wave, prev, calls >>
             ELSE /\ gw' = [ gw EXCEPT !.sampleCount = sc ]
                  /\ wave' = [ sampleCount |-> sc,
                               data |-> SubSeq(buffer, 1, sc),
                               null |-> (alloc = "NULL") ]
                  /\ prev' = wave
                  /\ calls' = calls + 1
                  /\ nullWrite' = (nullWrite \/ bad)
                  /\ pc' = "idle"
    /\ op' = "end"
    /\ UNCHANGED << source, frame, volumeValue, cli, params, regenerate, randState, fileVars,
                    phaserBuffer, noiseBuffer, buffer, produced, gens >>

\* between two calls other code draws from the shared generator
OtherDraws ==
    /\ pc = "idle"
    /\ \E s \in RandInits : s # randState /\ randState' = s
    /\ op' = "draws"
    /\ UNCHANGED << source, frame, volumeValue, cli, params, regenerate, fileVars, renderVars, gens >>

\* parameter sets rendered: short envelopes, every wave shape, a render with
\* an empty sustain stage, one with an empty decay stage, one that reaches
\* the frequency floor, one with repeat, tone change, vibrato, phaser and
\* both filters, one the clamps change, one with a period under 8, one
\* whose high-pass multiplier is 0.0, one with a tone change and no repeat,
\* one with the tone change switched off, one whose phaser offset sweeps
\* past 1023, two that slide past the maximum period with a minimum frequency
\* of 0 and below 0, one whose tone change comes before its repeat and one
\* whose tone change limit is above its repeat limit
ShortEnvelope == [ DefaultParams(7) EXCEPT
    !.attackTimeValue = 5, !.sustainTimeValue = 10, !.decayTimeValue = 10,
    !.startFrequencyValue = 1000 ]

\* a record the render-time clamps change, with a repeat and a negative duty
ClampedRepeat == [ ShortEnvelope EXCEPT
    !.sustainTimeValue = 20, !.repeatSpeedValue = 1000,
    !.startFrequencyValue = 500, !.minFrequencyValue = 800,
    !.slideValue = -500, !.deltaSlideValue = 200,
    !.squareDutyValue = -1000, !.dutySweepValue = -1000 ]

\* a record with a tone change at sample 32 and no repeat
ToneChange == [ ShortEnvelope EXCEPT
    !.sustainTimeValue = 20, !.changeSpeedValue = 995, !.changeAmountValue = 500 ]

\* a record with a repeat every 64 samples and a tone change 32 samples
\* after the start and, from the first repeat on, 31 samples after each
RepeatedTone == [ ShortEnvelope EXCEPT
    !.sustainTimeValue = 30, !.repeatSpeedValue = 960,
    !.changeSpeedValue = 995, !.changeAmountValue = 500 ]

\* a record with a repeat every 32 samples and a tone change limit of 64
LateTone == [ RepeatedTone EXCEPT !.repeatSpeedValue = 1000, !.changeSpeedValue = 960 ]

RenderInputs ==
    { ShortEnvelope,
      RepeatedTone,
      LateTone,
      [ ShortEnvelope EXCEPT !.waveTypeValue = 3, !.sustainPunchValue = 500 ],
      [ ShortEnvelope EXCEPT !.waveTypeValue = 3, !.randSeed = 0 ],
      [ ShortEnvelope EXCEPT !.waveTypeValue = 2, !.sustainTimeValue = 0 ],
      [ ShortEnvelope EXCEPT !.waveTypeValue = 1, !.decayTimeValue = 0,
                             !.squareDutyValue = -1000, !.dutySweepValue = 1000 ],
      [ ShortEnvelope EXCEPT !.waveTypeValue = 1, !.sustainTimeValue = 20,
                             !.minFrequencyValue = 900,
                             !.slideValue = -1000, !.deltaSlideValue = -1000 ],
      [ ShortEnvelope EXCEPT !.sustainTimeValue = 20, !.repeatSpeedValue = 1000,
                             !.changeSpeedValue = 995, !.changeAmountValue = -500,
                             !.vibratoDepthValue = 500, !.vibratoSpeedValue = 1000,
                             !.phaserOffsetValue = 100, !.phaserSweepValue = -1000,
                             !.lpfCutoffValue = 800, !.lpfCutoffSweepValue = -500,
                             !.lpfResonanceValue = 500,
                             !.hpfCutoffValue = 300, !.hpfCutoffSweepValue = 1000 ],
      ClampedRepeat,
      [ ShortEnvelope EXCEPT !.sustainTimeValue = 20, !.repeatSpeedValue = 1000,
                             !.startFrequencyValue = 4000 ],
      [ ShortEnvelope EXCEPT !.hpfCutoffSweepValue = -3333333 ],
      ToneChange,
      [ ToneChange EXCEPT !.changeSpeedValue = 1000 ],
      [ ShortEnvelope EXCEPT !.waveTypeValue = 3, !.randSeed = 0,
                             !.phaserOffsetValue = 1000, !.phaserSweepValue = 1000 ],
      [ ShortEnvelope EXCEPT !.startFrequencyValue = 0,
                             !.slideValue = -1000, !.deltaSlideValue = -1000 ],
      [ ShortEnvelope EXCEPT !.sustainTimeValue = 20, !.startFrequencyValue = 600,
                             !.minFrequencyValue = -500,
                             !.slideValue = -1000, !.deltaSlideValue = -1000 ] }

RenderInit ==
    /\ RenderIdle
    /\ params \in RenderInputs
    /\ regenerate = FALSE
    /\ randState \in RandInits
    /\ disk = NoFile
    /\ diag = "none"
    /\ saved = NoRecord
    /\ op = "init"

RenderNext ==
    \/ \E alloc \in AllocResults : GenerateWaveBegin(alloc)
    \/ RenderStep
    \/ \E alloc \in AllocResults : GenerateWaveEnd(alloc)
    \/ OtherDraws

SpecRender == RenderInit /\ [][RenderNext]_vars

\* ---------------------------------------------------------------------------
\* Properties of the rendered samples (SpecRender)
\* ---------------------------------------------------------------------------

\* a sample that is a number of [-1, 1]
InUnitRange(x) == x # NaN /\ x >= 0 - Micro /\ x <= Micro

\* C5: every sample written to the output buffer lies in [-1.0, 1.0], for
\* every parameter set, the volume envelope and the final clamp being bounded
C5_SamplesInUnitRange ==
    \A k \in 1..Len(buffer) : InUnitRange(buffer[k])

\* a GenerateWave call has returned a wave with its data
Returned == pc = "idle" /\ calls > 0 /\ op = "end"

\* C8: two GenerateWave calls with the same parameter set whose randSeed is
\* not 0 return the same sampleCount and the same samples, whatever state the
\* shared generator was in before each call, for every wave shape
C8_SeededRenderRepeats ==
    (Returned /\ calls >= 2 /\ params.randSeed # 0 /\ ~wave.null /\ ~prev.null)
        => (wave.sampleCount = prev.sampleCount /\ wave.data = prev.data)

\* the second call of a seeded noise render has returned, the generator left
\* in a state no RandInits value equals
C8_Witness ==
    /\ Returned /\ calls = 2
    /\ params.randSeed # 0 /\ params.waveTypeValue = 3
    /\ ~wave.null /\ ~prev.null
    /\ wave.sampleCount = 25 /\ Len(wave.data) = 25
    /\ wave.data = prev.data
    /\ \E k \in 1..25 : wave.data[k] # 0

\* C9: when the allocation of the render buffer or of the trimmed output
\* buffer fails, no write goes through the failed allocation, the process is
\* not killed, and the call returns a failure result instead of a wave that
\* claims samples
C9_AllocFailureSurfaced ==
    /\ ~nullWrite
    /\ pc # "crashed"
    /\ (Returned /\ (gw.bufferNull \/ wave.null)) => (wave.null /\ wave.sampleCount = 0)

\* ---------------------------------------------------------------------------
\* ResetWaveParams and the preset generators (lines 832-877, 1440-1646)
\* ---------------------------------------------------------------------------

\* the generator's state after k calls of rand()
RECURSIVE RandAt(_, _)
RandAt(s, k) == IF k = 0 THEN s ELSE RandAt(rand(s), k - 1)

\* ResetWaveParams with the assignment of lpfCutoffValue left out
ResetWaveParams_KeepsCutoff(p, s) ==
    LET seed == GetRandomValue(s, 1, 65534)
    IN  [ params |-> [ DefaultParams(seed) EXCEPT !.lpfCutoffValue = p.lpfCutoffValue ],
          rs |-> srand(seed) ]

\* ResetWaveParams(&params) (lines 832-877): the record it leaves and the
\* generator's state, from the record p and the generator state s it finds
ResetWaveParams(p, s) ==
    LET seed == GetRandomValue(s, 1, 65534)
    IN  [ params |->
            [ p EXCEPT
                !.randSeed = seed,
                !.waveTypeValue = 0,
                !.attackTimeValue = 0,
                !.sustainTimeValue = 300,
                !.sustainPunchValue = 0,
                !.decayTimeValue = 400,
                !.startFrequencyValue = 300,
                !.minFrequencyValue = 0,
                !.slideValue = 0,
                !.deltaSlideValue = 0,
                !.vibratoDepthValue = 0,
                !.vibratoSpeedValue = 0,
                !.changeAmountValue = 0,
                !.changeSpeedValue = 0,
                !.squareDutyValue = 0,
                !.dutySweepValue = 0,
                !.repeatSpeedValue = 0,
                !.phaserOffsetValue = 0,
                !.phaserSweepValue = 0,
                !.lpfCutoffValue = 1000,
                !.lpfCutoffSweepValue = 0,
                !.lpfResonanceValue = 0,
                !.hpfCutoffValue = 0,
                !.hpfCutoffSweepValue = 0 ],
          rs |-> srand(seed) ]

\* GenPickupCoin (lines 1440-1457)
GenPickupCoin(p, s) ==
    LET r == ResetWaveParams(p, s)
        D(k) == RandAt(r.rs, k)
        coin == GetRandomValue(D(4), 0, 1) # 0
        base == [ r.params EXCEPT
                    !.startFrequencyValue = 400 + frnd(D(0), 500),
                    !.attackTimeValue = 0,
                    !.sustainTimeValue = frnd(D(1), 100),
                    !.decayTimeValue = 100 + frnd(D(2), 400),
                    !.sustainPunchValue = 300 + frnd(D(3), 300) ]
    IN  [ params |-> IF coin
                     THEN [ base EXCEPT !.changeSpeedValue = 500 + frnd(D(5), 200),
                                        !.changeAmountValue = 200 + frnd(D(6), 400) ]
                     ELSE base,
          rs |-> IF coin THEN D(7) ELSE D(5) ]

\* GenLaserShoot (lines 1460-1508); n1..n6 count the draws made so far
GenLaserShoot(p, s) ==
    LET r == ResetWaveParams(p, s)
        q == r.params
        D(k) == RandAt(r.rs, k)
        wt1 == GetRandomValue(D(0), 0, 2)
        c1 == wt1 = 2 /\ GetRandomValue(D(1), 0, 1) # 0
        n1 == IF wt1 = 2 THEN (IF c1 THEN 3 ELSE 2) ELSE 1
        wt == IF c1 THEN GetRandomValue(D(2), 0, 1) ELSE wt1
        sfA == 500 + frnd(D(n1), 500)
        mfA == (sfA - 200) - frnd(D(n1 + 1), 600)
        slA == (0 - 150) - frnd(D(n1 + 2), 200)
        c2 == GetRandomValue(D(n1 + 3), 0, 2) = 0
        n2 == IF c2 THEN n1 + 7 ELSE n1 + 4
        c3 == GetRandomValue(D(n2), 0, 1) # 0
        n3 == n2 + 3
        c4 == GetRandomValue(D(n3 + 2), 0, 1) # 0
        n4 == IF c4 THEN n3 + 4 ELSE n3 + 3
        c5 == GetRandomValue(D(n4), 0, 2) = 0
        n5 == IF c5 THEN n4 + 3 ELSE n4 + 1
        c6 == GetRandomValue(D(n5), 0, 1) # 0
        n6 == IF c6 THEN n5 + 2 ELSE n5 + 1
    IN  [ params |->
            [ q EXCEPT
                !.waveTypeValue = wt,
                !.startFrequencyValue = IF c2 THEN 300 + frnd(D(n1 + 4), 600) ELSE sfA,
                !.minFrequencyValue = IF c2 THEN frnd(D(n1 + 5), 100)
                                      ELSE IF mfA < 200 THEN 200 ELSE mfA,
                !.slideValue = IF c2 THEN (0 - 350) - frnd(D(n1 + 6), 300) ELSE slA,
                !.squareDutyValue = IF c3 THEN frnd(D(n2 + 1), 500)
                                    ELSE 400 + frnd(D(n2 + 1), 500),
                !.dutySweepValue = IF c3 THEN frnd(D(n2 + 2), 200)
                                   ELSE 0 - frnd(D(n2 + 2), 700),
                !.attackTimeValue = 0,
                !.sustainTimeValue = 100 + frnd(D(n3), 200),
                !.decayTimeValue = frnd(D(n3 + 1), 400),
                !.sustainPunchValue = IF c4 THEN frnd(D(n3 + 3), 300) ELSE @,
                !.phaserOffsetValue = IF c5 THEN frnd(D(n4 + 1), 200) ELSE @,
                !.phaserSweepValue = IF c5 THEN 0 - frnd(D(n4 + 2), 200) ELSE @,
                !.hpfCutoffValue = IF c6 THEN frnd(D(n5 + 1), 300) ELSE @ ],
          rs |-> D(n6) ]

\* GenExplosion (lines 1511-1558)
GenExplosion(p, s) ==
    LET r == ResetWaveParams(p, s)
        q == r.params
        D(k) == RandAt(r.rs, k)
        c1 == GetRandomValue(D(0), 0, 1) # 0
        sf0 == IF c1 THEN 100 + frnd(D(1), 400) ELSE 200 + frnd(D(1), 700)
        sl0 == IF c1 THEN (0 - 100) + frnd(D(2), 400) ELSE (0 - 200) - frnd(D(2), 200)
        c2 == GetRandomValue(D(3), 0, 4) = 0
        c3 == GetRandomValue(D(4), 0, 2) = 0
        n3 == IF c3 THEN 6 ELSE 5
        c4 == GetRandomValue(D(n3 + 2), 0, 1) = 0
        n4 == IF c4 THEN n3 + 5 ELSE n3 + 3
        c5 == GetRandomValue(D(n4 + 1), 0, 1) # 0
        n5 == IF c5 THEN n4 + 4 ELSE n4 + 2
        c6 == GetRandomValue(D(n5), 0, 2) = 0
        n6 == IF c6 THEN n5 + 3 ELSE n5 + 1
    IN  [ params |->
            [ q EXCEPT
                !.waveTypeValue = 3,
                !.startFrequencyValue = (sf0 * sf0) \div 1000,
                !.slideValue = IF c2 THEN 0 ELSE sl0,
                !.repeatSpeedValue = IF c3 THEN 300 + frnd(D(5), 500) ELSE @,
                !.attackTimeValue = 0,
                !.sustainTimeValue = 100 + frnd(D(n3), 300),
                !.decayTimeValue = frnd(D(n3 + 1), 500),
                !.phaserOffsetValue = IF c4 THEN (0 - 300) + frnd(D(n3 + 3), 900) ELSE @,
                !.phaserSweepValue = IF c4 THEN 0 - frnd(D(n3 + 4), 300) ELSE @,
                !.sustainPunchValue = 200 + frnd(D(n4), 600),
                !.vibratoDepthValue = IF c5 THEN frnd(D(n4 + 2), 700) ELSE @,
                !.vibratoSpeedValue = IF c5 THEN frnd(D(n4 + 3), 600) ELSE @,
                !.changeSpeedValue = IF c6 THEN 600 + frnd(D(n5 + 1), 300) ELSE @,
                !.changeAmountValue = IF c6 THEN 800 - frnd(D(n5 + 2), 1600) ELSE @ ],
          rs |-> D(n6) ]

\* GenPowerup (lines 1561-1591)
GenPowerup(p, s) ==
    LET r == ResetWaveParams(p, s)
        q == r.params
        D(k) == RandAt(r.rs, k)
        c1 == GetRandomValue(D(0), 0, 1) # 0
        n1 == IF c1 THEN 1 ELSE 2
        c2 == GetRandomValue(D(n1), 0, 1) # 0
        c3 == ~c2 /\ GetRandomValue(D(n1 + 3), 0, 1) # 0
        n2 == IF c2 THEN n1 + 4 ELSE IF c3 THEN n1 + 6 ELSE n1 + 4
    IN  [ params |->
            [ q EXCEPT
                !.waveTypeValue = IF c1 THEN 1 ELSE @,
                !.squareDutyValue = IF c1 THEN @ ELSE frnd(D(1), 600),
                !.startFrequencyValue = 200 + frnd(D(n1 + 1), 300),
                !.slideValue = IF c2 THEN 100 + frnd(D(n1 + 2), 400)
                               ELSE 50 + frnd(D(n1 + 2), 200),
                !.repeatSpeedValue = IF c2 THEN 400 + frnd(D(n1 + 3), 400) ELSE @,
                !.vibratoDepthValue = IF c3 THEN frnd(D(n1 + 4), 700) ELSE @,
                !.vibratoSpeedValue = IF c3 THEN frnd(D(n1 + 5), 600) ELSE @,
                !.attackTimeValue = 0,
                !.sustainTimeValue = frnd(D(n2), 400),
                !.decayTimeValue = 100 + frnd(D(n2 + 1), 400) ],
          rs |-> D(n2 + 2) ]

\* GenHitHurt (lines 1594-1611)
GenHitHurt(p, s) ==
    LET r == ResetWaveParams(p, s)
        q == r.params
        D(k) == RandAt(r.rs, k)
        wt0 == GetRandomValue(D(0), 0, 2)
        wt == IF wt0 = 2 THEN 3 ELSE wt0
        n1 == IF wt = 0 THEN 2 ELSE 1
        c2 == GetRandomValue(D(n1 + 4), 0, 1) # 0
    IN  [ params |->
            [ q EXCEPT
                !.waveTypeValue = wt,
                !.squareDutyValue = IF wt = 0 THEN frnd(D(1), 600) ELSE @,
                !.startFrequencyValue = 200 + frnd(D(n1), 600),
                !.slideValue = (0 - 300) - frnd(D(n1 + 1), 400),
                !.attackTimeValue = 0,
                !.sustainTimeValue = frnd(D(n1 + 2), 100),
                !.decayTimeValue = 100 + frnd(D(n1 + 3), 200),
                !.hpfCutoffValue = IF c2 THEN frnd(D(n1 + 5), 300) ELSE @ ],
          rs |-> IF c2 THEN D(n1 + 6) ELSE D(n1 + 5) ]

\* GenJump (lines 1614-1630)
GenJump(p, s) ==
    LET r == ResetWaveParams(p, s)
        q == r.params
        D(k) == RandAt(r.rs, k)
        c1 == GetRandomValue(D(5), 0, 1) # 0
        n1 == IF c1 THEN 7 ELSE 6
        c2 == GetRandomValue(D(n1), 0, 1) # 0
    IN  [ params |->
            [ q EXCEPT
                !.waveTypeValue = 0,
                !.squareDutyValue = frnd(D(0), 600),
                !.startFrequencyValue = 300 + frnd(D(1), 300),
                !.slideValue = 100 + frnd(D(2), 200),
                !.attackTimeValue = 0,
                !.sustainTimeValue = 100 + frnd(D(3), 300),
                !.decayTimeValue = 100 + frnd(D(4), 200),
                !.hpfCutoffValue = IF c1 THEN frnd(D(6), 300) ELSE @,
                !.lpfCutoffValue = IF c2 THEN 1000 - frnd(D(n1 + 1), 600) ELSE @ ],
          rs |-> IF c2 THEN D(n1 + 2) ELSE D(n1 + 1) ]

\* GenBlipSelect (lines 1633-1646)
GenBlipSelect(p, s) ==
    LET r == ResetWaveParams(p, s)
        q == r.params
        D(k) == RandAt(r.rs, k)
        wt == GetRandomValue(D(0), 0, 1)
        n1 == IF wt = 0 THEN 2 ELSE 1
    IN  [ params |->
            [ q EXCEPT
                !.waveTypeValue = wt,
                !.squareDutyValue = IF wt = 0 THEN frnd(D(1), 600) ELSE @,
                !.startFrequencyValue = 200 + frnd(D(n1), 400),
                !.attackTimeValue = 0,
                !.sustainTimeValue = 100 + frnd(D(n1 + 1), 100),
                !.decayTimeValue = frnd(D(n1 + 2), 200),
                !.hpfCutoffValue = 100 ],
          rs |-> D(n1 + 3) ]

\* the seven preset buttons (lines 529-535)
PresetNames == { "PickupCoin", "LaserShoot", "Explosion", "Powerup",
                 "HitHurt", "Jump", "BlipSelect" }

Preset(name, p, s) ==
    CASE name = "PickupCoin" -> GenPickupCoin(p, s)
      [] name = "LaserShoot" -> GenLaserShoot(p, s)
      [] name = "Explosion" -> GenExplosion(p, s)
      [] name = "Powerup" -> GenPowerup(p, s)
      [] name = "HitHurt" -> GenHitHurt(p, s)
      [] name = "Jump" -> GenJump(p, s)
      [] name = "BlipSelect" -> GenBlipSelect(p, s)

\* ---------------------------------------------------------------------------
\* The length of a render (SpecLength, SpecPreset)
\*
\* Which iteration leaves the loop, and with which sampleCount, is decided by
\* the repeat, arpeggio, slide and envelope steps alone (lines 989-1038,
\* 1057-1066): nothing below line 1066 writes a variable these steps read.
\* The actions here run those steps and count the samples the loop writes;
\* the sample values are SpecRender's. Both allocations succeed here; their
\* failure is SpecRender's.
\* ---------------------------------------------------------------------------

MinOf(a, b) == IF a < b THEN a ELSE b

\* how many of the next iterations decide nothing about the loop's exit and
\* only advance the four counters: no repeat, tone change, stage change or
\* loop bound falls within them, and either the slide is the identity (fslide
\* 1.0, fdslide 0.0, period under the floor) or there is no floor to stop at
\* (minFrequencyValue > 0.0f is false at line 1033), in which case the period
\* is not followed through the run
QuietRun(g) ==
    LET still == g.fslide = Micro /\ g.fdslide = 0 /\ g.fperiod <= g.fmaxperiod
        frozen == still \/ g.params.minFrequencyValue <= 0
        toBound == MaxSamples - g.i
        toStage == g.envelopeLength[g.envelopeStage + 1] - g.envelopeTime
        toRepeat == IF g.repeatLimit = 0 THEN toBound
                    ELSE (g.repeatLimit - 1) - g.repeatTime
        toChange == IF g.arpeggioLimit = 0 THEN toBound
                    ELSE (g.arpeggioLimit - 1) - g.arpeggioTime
        n == MinOf(MinOf(toBound, toStage), MinOf(toRepeat, toChange))
    IN  IF frozen /\ g.generatingSample /\ n > 0 THEN n ELSE 0

\* the generator's state after a noise render, which redraws the noise buffer
\* each time the phase wraps (lines 1095-1104)
AfterRender(g, s) == IF g.params.waveTypeValue = 3 THEN RandInits \cup { s } ELSE { s }

\* main loop: regenerate is set, GenerateWave(params) is entered (lines 452,
\* 455, 881-985)
CountBegin ==
    /\ pc = "idle"
    /\ regenerate
    /\ gw' = GenerateWaveInit(params, "ok")
    /\ randState' = NoiseDraw(Reseed(params, randState), 32).rs
    /\ produced' = 0
    /\ nullWrite' = FALSE
    /\ pc' = "loop"
    /\ op' = "begin"
    /\ UNCHANGED << source, frame, volumeValue, cli, params, regenerate, fileVars, phaserBuffer, noiseBuffer, buffer,
                    wave, prev, calls, gens >>

\* one iteration of the loop (lines 987-1167)
CountStep ==
    /\ pc = "loop"
    /\ gw.i < MaxSamples
    /\ gw.generatingSample
    /\ QuietRun(gw) = 0
    /\ gw' = [ StepEnvelope(StepFrequency(gw)) EXCEPT !.i = @ + 1 ]
    /\ produced' = produced + 1
    /\ op' = "step"
    /\ UNCHANGED << source, frame, volumeValue, cli, params, regenerate, randState, fileVars, phaserBuffer, noiseBuffer,
                    buffer, nullWrite, pc, wave, prev, calls, gens >>

\* QuietRun(gw) iterations of the loop
CountRun ==
    /\ pc = "loop"
    /\ gw.i < MaxSamples
    /\ QuietRun(gw) > 0
    /\ LET n == QuietRun(gw)
       IN  /\ gw' = [ gw EXCEPT !.repeatTime = @ + n, !.arpeggioTime = @ + n,
                                !.envelopeTime = @ + n, !.i = @ + n ]
           /\ produced' = produced + n
    /\ op' = "run"
    /\ UNCHANGED << source, frame, volumeValue, cli, params, regenerate, randState, fileVars, phaserBuffer, noiseBuffer,
                    buffer, nullWrite, pc, wave, prev, calls, gens >>

\* the loop's exit, the wave GenerateWave returns and the main loop's
\* regenerate = false (lines 987-993, 1169-1183, 463)
CountEnd ==
    /\ pc = "loop"
    /\ gw.i >= MaxSamples \/ ~gw.generatingSample
    /\ LET sc == SampleCountAtExit(gw)
       IN  /\ gw' = [ gw EXCEPT !.sampleCount = sc ]
           /\ wave' = [ sampleCount |-> sc, data |-> << >>, null |-> FALSE ]
    /\ randState' \in AfterRender(gw, randState)
    /\ prev' = wave
    /\ calls' = calls + 1
    /\ regenerate' = FALSE
    /\ pc' = "idle"
    /\ op' = "end"
    /\ UNCHANGED << source, frame, volumeValue, cli, params, fileVars, phaserBuffer, noiseBuffer, buffer, produced,
                    nullWrite, gens >>

\* parameter sets a loaded file can hold: the defaults; an envelope longer
\* than ten seconds; one whose last stage ends in the loop's last iteration;
\* a slide down to the frequency floor; a slide with no floor; a slow slide
\* the envelope ends before the floor; a repeat; a tone change that crosses
\* the floor
LongEnvelope == [ DefaultParams(7) EXCEPT
    !.attackTimeValue = 2000, !.sustainTimeValue = 1000, !.decayTimeValue = 1000 ]

LengthInputs ==
    { DefaultParams(7),
      LongEnvelope,
      [ LongEnvelope EXCEPT !.sustainTimeValue = 621, !.decayTimeValue = 156 ],
      [ DefaultParams(7) EXCEPT !.startFrequencyValue = 1000, !.minFrequencyValue = 900,
                                !.slideValue = -1000, !.deltaSlideValue = -1000 ],
      [ DefaultParams(7) EXCEPT !.startFrequencyValue = 0, !.sustainTimeValue = 30,
                                !.decayTimeValue = 30,
                                !.slideValue = -1000, !.deltaSlideValue = -1000 ],
      [ DefaultParams(7) EXCEPT !.startFrequencyValue = 1000, !.minFrequencyValue = 100,
                                !.sustainTimeValue = 30, !.decayTimeValue = 20,
                                !.slideValue = -100, !.deltaSlideValue = -100 ],
      [ LongEnvelope EXCEPT !.repeatSpeedValue = 500 ],
      [ DefaultParams(7) EXCEPT !.startFrequencyValue = 1000, !.minFrequencyValue = 500,
                                !.changeSpeedValue = 900, !.changeAmountValue = -1000 ] }

LengthInit ==
    /\ RenderIdle
    /\ params \in LengthInputs
    /\ regenerate = TRUE
    /\ randState \in RandInits
    /\ disk = NoFile
    /\ diag = "none"
    /\ saved = NoRecord
    /\ op = "init"

LengthNext ==
    \/ CountBegin
    \/ CountStep
    \/ CountRun
    \/ CountEnd

SpecLength == LengthInit /\ [][LengthNext]_vars

\* C2: the sampleCount of the wave a call returns equals the number of
\* samples the loop produced, in all three stop cases: envelope end,
\* frequency floor, and the cap of 441000 samples
C2_SampleCountIsProduced ==
    Returned => wave.sampleCount = produced

\* C3: every call terminates (each iteration advances the loop index, which
\* never passes 441000) and returns sampleCount <= 441000, strictly less when
\* the envelope's last stage ended or the frequency floor was reached
C3_TerminatesWithinCap ==
    /\ [](/\ gw.i <= MaxSamples
          /\ produced <= MaxSamples
          /\ Returned => /\ wave.sampleCount <= MaxSamples
                         /\ ~gw.generatingSample => wave.sampleCount < MaxSamples)
    /\ [][(pc = "loop" /\ pc' = "loop") => gw'.i > gw.i]_vars

\* a call has returned whose envelope ended in the loop's last iteration
C3_Witness ==
    /\ Returned
    /\ gw.i = MaxSamples /\ produced = MaxSamples
    /\ ~gw.generatingSample /\ gw.envelopeStage = 3
    /\ wave.sampleCount < MaxSamples

\* ---------------------------------------------------------------------------
\* The presets and the render that follows them (SpecPreset)
\* ---------------------------------------------------------------------------

MaxGens == 1

\* a preset button is pressed (lines 529-535)
GenPreset(name) ==
    /\ pc = "idle"
    /\ gens < MaxGens
    /\ LET r == Preset(name, params, randState)
       IN  /\ params' = r.params
           /\ randState' = r.rs
    /\ regenerate' = TRUE
    /\ gens' = gens + 1
    /\ op' = "preset"
    /\ source' = randState
    /\ UNCHANGED << frame, volumeValue, cli, fileVars, renderVars >>

\* the program after its start without an input file (lines 359-371): the
\* generator seeded by InitWindow, the record reset
PresetInit ==
    /\ RenderIdle
    /\ \E s \in RandInits :
         LET r == ResetWaveParams(ZeroParams, s)
         IN  params = r.params /\ randState = r.rs
    /\ regenerate = FALSE
    /\ disk = NoFile
    /\ diag = "none"
    /\ saved = NoRecord
    /\ op = "init"

PresetNext ==
    \/ \E name \in PresetNames : GenPreset(name)
    \/ CountBegin
    \/ CountStep
    \/ CountRun
    \/ CountEnd

SpecPreset == PresetInit /\ [][PresetNext]_vars

\* C4: the render of the parameter set any of the seven presets leaves, for
\* every outcome of its draws, returns a wave with sampleCount > 0
C4_PresetRenderNotEmpty ==
    (Returned /\ gens > 0) => wave.sampleCount > 0

\* a preset with an upward slide has been rendered
C4_Witness ==
    /\ Returned /\ gens > 0
    /\ params.slideValue > 0
    /\ wave.sampleCount > 0 /\ wave.sampleCount = produced

\* ---------------------------------------------------------------------------
\* ResetWaveParams on any record (SpecReset)
\* ---------------------------------------------------------------------------

MaxResetRand == 24

\* records ResetWaveParams is applied to
ResetInputs == LengthInputs \cup RenderInputs \cup { ZeroParams, ForeignRecord }

ResetInit ==
    /\ RenderIdle
    /\ params \in ResetInputs
    /\ regenerate = FALSE
    /\ randState \in { (k * 1361) % 32768 : k \in 0..MaxResetRand }
    /\ disk = NoFile
    /\ diag = "none"
    /\ saved = NoRecord
    /\ op = "init"

\* ResetWaveParams(&params) (lines 832-877)
Reset ==
    /\ op = "init"
    /\ LET r == ResetWaveParams(params, randState)
       IN  /\ params' = r.params
           /\ randState' = r.rs
    /\ op' = "reset"
    /\ source' = randState
    /\ UNCHANGED << frame, volumeValue, cli, regenerate, fileVars, renderVars, gens >>

ResetNext == Reset

SpecReset == ResetInit /\ [][ResetNext]_vars

\* C10: after ResetWaveParams the record's seed is in [1, 0xFFFE], the
\* generator has been seeded with it, and every other field has its default
\* (Square, attack 0, sustain 0.3, punch 0, decay 0.4, start frequency 0.3,
\* low-pass cutoff 1.0, the rest 0), whatever the record held before
C10_ResetLeavesDefaults ==
    op = "reset" =>
        /\ params.randSeed >= 1 /\ params.randSeed <= 65534
        /\ randState = srand(params.randSeed)
        /\ params.waveTypeValue = 0
        /\ params.attackTimeValue = 0
        /\ params.sustainTimeValue = 300
        /\ params.sustainPunchValue = 0
        /\ params.decayTimeValue = 400
        /\ params.startFrequencyValue = 300
        /\ params.lpfCutoffValue = 1000
        /\ \A name \in FieldNames \ { "randSeed", "waveTypeValue", "attackTimeValue",
                                      "sustainTimeValue", "sustainPunchValue",
                                      "decayTimeValue", "startFrequencyValue",
                                      "lpfCutoffValue" } : params[name] = 0

\* the reset has run and left a drawn seed with the defaults
C10_Witness ==
    /\ op = "reset"
    /\ params.randSeed > 1
    /\ params.lpfCutoffValue = 1000 /\ params.sustainTimeValue = 300
    /\ params.hpfCutoffSweepValue = 0 /\ params.waveTypeValue = 0

\* ---------------------------------------------------------------------------
\* Properties of the engine's working state (SpecRender)
\* ---------------------------------------------------------------------------

MaxOf(a, b) == IF a > b THEN a ELSE b

\* the minimum frequency and the slide the claim says a render works with
WorkingMin == MinOf(params.minFrequencyValue, params.startFrequencyValue)
WorkingSlide == MaxOf(params.slideValue, params.deltaSlideValue)

\* the iteration just run took the repeat reset of lines 999-1019
JustRepeated == op = "step" /\ pc = "loop" /\ gw.repeatLimit # 0 /\ gw.repeatTime = 0

\* C11: GenerateWave works with min(minFrequency, startFrequency) and
\* max(slide, deltaSlide) for the whole render, also after every repeat
\* reset, and the caller's stored record is the same after the call as before
C11_ClampsOnCopy ==
    /\ [](pc = "loop" =>
            /\ gw.params.minFrequencyValue = WorkingMin
            /\ gw.params.slideValue = WorkingSlide
            /\ gw.fmaxperiod = PeriodOf(WorkingMin)
            /\ (op = "begin" \/ JustRepeated) =>
                 gw.fslide = (Micro - ((WorkingSlide * WorkingSlide * WorkingSlide) \div 100000))
                               + (IF op = "begin" THEN 0 ELSE gw.fdslide))
    /\ [][op' \in { "begin", "step", "end" } => params' = params]_vars

\* a repeat reset has run in a render whose stored record has its minimum
\* above its start frequency and its slide below its delta slide
C11_Witness ==
    /\ JustRepeated /\ gw.i > 0
    /\ params.minFrequencyValue > params.startFrequencyValue
    /\ params.slideValue < params.deltaSlideValue
    /\ gw.params.minFrequencyValue < params.minFrequencyValue

\* C12: in every sub-sample of every render the integer period that wraps and
\* normalises the phase is >= 8, also in the sample of a repeat reset
C12_PeriodAtLeast8 ==
    (op = "step" /\ pc = "loop") => gw.period >= 8

\* a repeat reset has recomputed a period of 6, and the sample used 8
C12_Witness ==
    /\ JustRepeated /\ gw.i > 0
    /\ IntOf(gw.fperiod) < 8
    /\ gw.period = 8

\* the working duty is within [0, 0.5]
DutyInRange == gw.squareDuty >= 0 /\ gw.squareDuty <= 500000

\* C13 as stated: the working square duty is within [0, 0.5] throughout a
\* render, at initialisation included, for every stored duty and sweep
C13_DutyInRangeThroughout ==
    pc = "loop" => DutyInRange

\* C13 amended: the working square duty is within [0, 0.5] in every sample
\* from the clamp of lines 1054-1055 on, so wherever the oscillator reads it,
\* a repeat reset in that sample included; the value line 939 assigns at
\* initialisation is within [0, 0.5] only for a stored duty within [0, 1]
C13_DutyInRangeWhenUsed ==
    /\ (op = "step" /\ pc = "loop") => DutyInRange
    /\ (op = "begin" /\ params.squareDutyValue >= 0 /\ params.squareDutyValue <= 1000)
         => DutyInRange

\* a repeat reset has recomputed the duty from a negative stored duty
C13_Witness ==
    /\ JustRepeated /\ gw.i > 0
    /\ params.squareDutyValue < 0
    /\ gw.squareDuty = 500000

\* C14: wherever the filters use them, the working low-pass cutoff is within
\* [0, 0.1] and the working high-pass cutoff within [0.00001, 0.1], whatever
\* the stored cutoffs and sweeps, a high-pass multiplier of 0 included
C14_CutoffsInRange ==
    (op = "step" /\ pc = "loop") =>
        /\ gw.fltw >= 0 /\ gw.fltw <= 100000
        /\ gw.flthp >= 10 /\ gw.flthp <= 100000

\* C20: the envelope stage starts at attack and only advances, by at most one
\* stage per output sample, repeat resets included; reaching the end stops
\* the render with that sample as its last; envelopeLength is indexed with a
\* stage in 0..2 only
C20_StagesAdvance ==
    /\ [](pc = "loop" =>
            /\ gw.envelopeStage \in 0..3
            /\ gw.generatingSample => gw.envelopeStage <= 2
            /\ gw.envelopeStage = 3 => ~gw.generatingSample
            /\ op = "begin" => gw.envelopeStage = 0)
    /\ [][(op' = "step" /\ pc' = "loop") =>
            /\ gw.envelopeStage <= 2
            /\ gw'.envelopeStage \in { gw.envelopeStage, gw.envelopeStage + 1 }]_vars
    /\ [][(pc = "loop" /\ gw.envelopeStage = 3) =>
            (op' = "end" /\ produced' = produced)]_vars

\* a render with a repeat has gone through the three stages and returned
C20_Witness ==
    /\ Returned /\ ~wave.null
    /\ gw.envelopeStage = 3 /\ gw.repeatLimit # 0 /\ gw.repeatTime < gw.i
    /\ wave.sampleCount = produced /\ produced = 55

\* ---------------------------------------------------------------------------
\* Length of a render the envelope ends (SpecLength)
\* ---------------------------------------------------------------------------

\* floor(t * t * 100000) for a stored time t
StageSamples(t) == (t * t) \div 10

\* L0 + L1 + L2 + 3 for the stored record
EnvelopeSamples ==
    StageSamples(params.attackTimeValue) + StageSamples(params.sustainTimeValue)
        + StageSamples(params.decayTimeValue) + 3

\* C19: a render the envelope ends (no stop at the frequency floor, total
\* under the ten-second bound) returns sampleCount = L0 + L1 + L2 + 3 with
\* L = floor(t * t * 100000); the default record gives 25003
C19_EnvelopeLength ==
    /\ (Returned /\ gw.envelopeStage = 3 /\ EnvelopeSamples < MaxSamples)
         => wave.sampleCount = EnvelopeSamples
    /\ (Returned /\ params = DefaultParams(params.randSeed))
         => wave.sampleCount = 25003

\* a sliding render with no frequency floor has been ended by its envelope
\* after 0 + 90 + 90 + 3 samples
C19_Witness ==
    /\ Returned /\ gw.envelopeStage = 3
    /\ params.slideValue # 0
    /\ wave.sampleCount = 183

\* ---------------------------------------------------------------------------
\* Command line: the --format option (SpecFormat)
\* ---------------------------------------------------------------------------

\* an argument's text is a sequence of characters
DigitChars == << "0", "1", "2", "3", "4", "5", "6", "7", "8", "9" >>
IsDigit(c) == \E k \in 1..10 : DigitChars[k] = c
DigitOf(c) == (CHOOSE k \in 1..10 : DigitChars[k] = c) - 1

\* the decimal text of an integer, as typed on the command line
RECURSIVE NatText(_)
NatText(n) == IF n < 10 THEN << DigitChars[n + 1] >>
              ELSE NatText(n \div 10) \o << DigitChars[(n % 10) + 1] >>
IntText(n) == IF n < 0 THEN << "-" >> \o NatText(0 - n) ELSE NatText(n)

\* the integers joined by commas
RECURSIVE FormatText(_)
FormatText(g) == IF Len(g) = 0 THEN << >>
                 ELSE IF Len(g) = 1 THEN IntText(g[1])
                 ELSE IntText(g[1]) \o << "," >> \o FormatText(Tail(g))

\* atoi: white space, an optional sign, then digits up to the first other
\* character
RECURSIVE AtoiDigits(_, _)
AtoiDigits(t, acc) == IF t = << >> \/ ~IsDigit(Head(t)) THEN acc
                      ELSE AtoiDigits(Tail(t), acc * 10 + DigitOf(Head(t)))
RECURSIVE atoi(_)
atoi(t) == IF t = << >> THEN 0
           ELSE IF Head(t) = " " THEN atoi(Tail(t))
           ELSE IF Head(t) = "-" THEN 0 - AtoiDigits(Tail(t), 0)
           ELSE IF Head(t) = "+" THEN AtoiDigits(Tail(t), 0)
           ELSE AtoiDigits(t, 0)

\* SplitText(text, delimiter, &count): the pieces between the delimiters, one
\* more than there are delimiters (the texts here have no empty piece)
RECURSIVE SplitFrom(_, _, _)
SplitFrom(t, d, piece) ==
    IF t = << >> THEN << piece >>
    ELSE IF Head(t) = d THEN << piece >> \o SplitFrom(Tail(t), d, << >>)
    ELSE SplitFrom(Tail(t), d, Append(piece, Head(t)))
SplitText(t, d) == SplitFrom(t, d, << >>)

\* argv has no element after the option
NoArg == << "\\0" >>

\* the three checks without the one on the channels
FormatOption_NoChannelCheck(c, arg) ==
    IF arg # NoArg /\ Head(arg) # "-"
    THEN LET values == SplitText(arg, ",")
         IN  IF Len(values) # 3
             THEN [ c EXCEPT !.out = Append(@, "WARNING: Incorrect number of format values") ]
             ELSE LET rate == atoi(values[1])
                      size == atoi(values[2])
                      chan == atoi(values[3])
                      badRate == rate # 44100 /\ rate # 22050
                      badSize == size # 8 /\ size # 16 /\ size # 32
                  IN  [ c EXCEPT
                          !.sampleRate = IF badRate THEN 44100 ELSE rate,
                          !.sampleSize = IF badSize THEN 16 ELSE size,
                          !.channels = chan,
                          !.out = @ \o (IF badRate THEN << "WARNING: Sample rate not supported. Default: 44100 Hz" >> ELSE << >>)
                                    \o (IF badSize THEN << "WARNING: Sample size not supported. Default: 16 bit" >> ELSE << >>) ]
    ELSE [ c EXCEPT !.out = Append(@, "WARNING: Format parameters provided not valid") ]

\* the -f / --format branch of ProcessCommandLine (lines 732-771) on the
\* target and the output so far
FormatOption(c, arg) ==
    IF arg # NoArg /\ Head(arg) # "-"
    THEN LET values == SplitText(arg, ",")
         IN  IF Len(values) # 3
             THEN [ c EXCEPT !.out = Append(@, "WARNING: Incorrect number of format values") ]
             ELSE LET rate == atoi(values[1])
                      size == atoi(values[2])
                      chan == atoi(values[3])
                      badRate == rate # 44100 /\ rate # 22050
                      badSize == size # 8 /\ size # 16 /\ size # 32
                      badChan == chan # 1 /\ chan # 2
                  IN  [ c EXCEPT
                          !.sampleRate = IF badRate THEN 44100 ELSE rate,
                          !.sampleSize = IF badSize THEN 16 ELSE size,
                          !.channels = IF badChan THEN 1 ELSE chan,
                          !.out = @ \o (IF badRate THEN << "WARNING: Sample rate not supported. Default: 44100 Hz" >> ELSE << >>)
                                    \o (IF badSize THEN << "WARNING: Sample size not supported. Default: 16 bit" >> ELSE << >>)
                                    \o (IF badChan THEN << "WARNING: Channels number not supported. Default: 1 (mono)" >> ELSE << >>) ]
    ELSE [ c EXCEPT !.out = Append(@, "WARNING: Format parameters provided not valid") ]

\* how many --format options one command line holds here
MaxFormatArgs == 2

\* integers typed after --format: three, and also one, two and four
GivenRates == { 44100, 22050, 48000, -1 }
GivenSizes == { 8, 16, 32, 24 }
GivenChannels == { 1, 2, 0, -2 }
FormatGivens ==
    { << r, z, c >> : r \in GivenRates, z \in GivenSizes, c \in GivenChannels }
        \cup { << 22050 >>, << 22050, 8 >>, << 22050, 8, 2, 2 >> }

FormatInit ==
    /\ RenderIdle
    /\ params = DefaultParams(0)
    /\ regenerate = FALSE
    /\ randState = 0
    /\ disk = NoFile
    /\ diag = "none"
    /\ saved = NoRecord
    /\ op = "init"

\* one --format option followed by an argument
FormatGiven ==
    /\ cli.i < MaxFormatArgs
    /\ \E g \in FormatGivens :
         cli' = [ FormatOption(cli, FormatText(g)) EXCEPT
                    !.arg = FormatText(g), !.given = g, !.i = @ + 1 ]
    /\ op' = "format"
    /\ UNCHANGED << source, frame, volumeValue, params, regenerate, randState, fileVars, renderVars, gens >>

\* --format as the last element of argv
FormatLast ==
    /\ cli.i < MaxFormatArgs
    /\ cli' = [ FormatOption(cli, NoArg) EXCEPT !.arg = NoArg, !.given = << >>, !.i = @ + 1 ]
    /\ op' = "format"
    /\ UNCHANGED << source, frame, volumeValue, params, regenerate, randState, fileVars, renderVars, gens >>

FormatNext ==
    \/ FormatGiven
    \/ FormatLast

SpecFormat == FormatInit /\ [][FormatNext]_vars

\* the conversion target holds supported values only
TargetSupported ==
    /\ cli.sampleRate \in { 22050, 44100 }
    /\ cli.sampleSize \in { 8, 16, 32 }
    /\ cli.channels \in { 1, 2 }

\* the target the claim describes for three given integers
TargetFor(g) ==
    /\ cli.sampleRate = (IF g[1] \in { 22050, 44100 } THEN g[1] ELSE 44100)
    /\ cli.sampleSize = (IF g[2] \in { 8, 16, 32 } THEN g[2] ELSE 16)
    /\ cli.channels = (IF g[3] \in { 1, 2 } THEN g[3] ELSE 1)

\* the warnings the claim describes for three given integers
WarningsFor(g) ==
    (IF g[1] \in { 22050, 44100 } THEN << >>
     ELSE << "WARNING: Sample rate not supported. Default: 44100 Hz" >>)
    \o (IF g[2] \in { 8, 16, 32 } THEN << >>
        ELSE << "WARNING: Sample size not supported. Default: 16 bit" >>)
    \o (IF g[3] \in { 1, 2 } THEN << >>
        ELSE << "WARNING: Channels number not supported. Default: 1 (mono)" >>)

SfsRead(st, f, field) ==
    [ st EXCEPT !.params[field] = BytesWord(ReadAt(f, st.off, 4, WordBytes(@))),
                !.off = MinOf(@ + 4, Len(f)) ]

\* fread(&volumeValue, 1, sizeof(float), sfsFile)
SfsReadVolume(st, f) ==
    [ st EXCEPT !.vol = BytesWord(ReadAt(f, st.off, 4, WordBytes(@))),
                !.off = MinOf(@ + 4, Len(f)) ]

\* fread into a local that is not used: n bytes consumed
SfsSkip(st, f, n) == [ st EXCEPT !.off = MinOf(@ + n, Len(f)) ]

RECURSIVE SfsReadAll(_, _, _)
\* consecutive fread calls into the named members
SfsReadAll(st, f, fields) ==
    IF fields = << >> THEN st
    ELSE SfsReadAll(SfsRead(st, f, Head(fields)), f, Tail(fields))

\* the loader with the filter-on flag taken as a 4-byte member
LoadSfs_FlagAsWord(f, vol) ==
    LET version == BytesWord(ReadAt(f, 0, 4, WordBytes(0)))
        s0 == [ params |-> ZeroParams, vol |-> vol, off |-> MinOf(4, Len(f)),
                diag |-> "none" ]
    IN  IF version = 100 \/ version = 101 \/ version = 102
        THEN LET a1 == SfsRead(s0, f, "waveTypeValue")
                 a2 == [ a1 EXCEPT !.vol = 500 ]
                 a3 == IF version = 102 THEN SfsReadVolume(a2, f) ELSE a2
                 a4 == SfsReadAll(a3, f, << "startFrequencyValue", "minFrequencyValue",
                                            "slideValue" >>)
                 a5 == IF version >= 101 THEN SfsRead(a4, f, "deltaSlideValue") ELSE a4
                 a6 == SfsReadAll(a5, f, << "squareDutyValue", "dutySweepValue",
                                            "vibratoDepthValue", "vibratoSpeedValue" >>)
                 a7 == SfsSkip(a6, f, 4)
                 a8 == SfsReadAll(a7, f, << "attackTimeValue", "sustainTimeValue",
                                            "decayTimeValue", "sustainPunchValue" >>)
                 a9 == SfsSkip(a8, f, 4)
                 a10 == SfsReadAll(a9, f, << "lpfResonanceValue", "lpfCutoffValue",
                                             "lpfCutoffSweepValue", "hpfCutoffValue",
                                             "hpfCutoffSweepValue", "phaserOffsetValue",
                                             "phaserSweepValue", "repeatSpeedValue" >>)
             IN  IF version >= 101
                 THEN SfsReadAll(a10, f, << "changeSpeedValue", "changeAmountValue" >>)
                 ELSE a10
        ELSE [ s0 EXCEPT !.diag = "SFS file version not supported" ]

\* LoadWaveParams, .sfs branch, on an opened file (lines 1196-1249): the
\* record returned, volumeValue, the message printed
LoadSfs(f, vol) ==
    LET version == BytesWord(ReadAt(f, 0, 4, WordBytes(0)))
        s0 == [ params |-> ZeroParams, vol |-> vol, off |-> MinOf(4, Len(f)),
                diag |-> "none" ]
    IN  IF version = 100 \/ version = 101 \/ version = 102
        THEN LET a1 == SfsRead(s0, f, "waveTypeValue")
                 a2 == [ a1 EXCEPT !.vol = 500 ]
                 a3 == IF version = 102 THEN SfsReadVolume(a2, f) ELSE a2
                 a4 == SfsReadAll(a3, f, << "startFrequencyValue", "minFrequencyValue",
                                            "slideValue" >>)
                 a5 == IF version >= 101 THEN SfsRead(a4, f, "deltaSlideValue") ELSE a4
                 a6 == SfsReadAll(a5, f, << "squareDutyValue", "dutySweepValue",
                                            "vibratoDepthValue", "vibratoSpeedValue" >>)
                 a7 == SfsSkip(a6, f, 4)
                 a8 == SfsReadAll(a7, f, << "attackTimeValue", "sustainTimeValue",
                                            "decayTimeValue", "sustainPunchValue" >>)
                 a9 == SfsSkip(a8, f, 1)
                 a10 == SfsReadAll(a9, f, << "lpfResonanceValue", "lpfCutoffValue",
                                             "lpfCutoffSweepValue", "hpfCutoffValue",
                                             "hpfCutoffSweepValue", "phaserOffsetValue",
                                             "phaserSweepValue", "repeatSpeedValue" >>)
             IN  IF version >= 101
                 THEN SfsReadAll(a10, f, << "changeSpeedValue", "changeAmountValue" >>)
                 ELSE a10
        ELSE [ s0 EXCEPT !.diag = "SFS file version not supported" ]

\* the words of the named members, in the order given
RECURSIVE SfsWords(_, _)
SfsWords(p, fields) ==
    IF fields = << >> THEN << >>
    ELSE WordBytes(p[Head(fields)]) \o SfsWords(p, Tail(fields))

\* a .sfs file as sfxr writes it for a version: the layout of lines 1297-1337,
\* without the volume before 102 and without deltaSlide, changeSpeed and
\* changeAmount before 101
SfsBytes(version, snd) ==
    WordBytes(version)
    \o WordBytes(snd.params.waveTypeValue)
    \o (IF version = 102 THEN WordBytes(snd.volumeValue) ELSE << >>)
    \o SfsWords(snd.params, << "startFrequencyValue", "minFrequencyValue", "slideValue" >>)
    \o (IF version >= 101 THEN WordBytes(snd.params.deltaSlideValue) ELSE << >>)
    \o SfsWords(snd.params, << "squareDutyValue", "dutySweepValue",
                               "vibratoDepthValue", "vibratoSpeedValue" >>)
    \o WordBytes(snd.vibratoPhaseDelay)
    \o SfsWords(snd.params, << "attackTimeValue", "sustainTimeValue",
                               "decayTimeValue", "sustainPunchValue" >>)
    \o << snd.filterOn >>
    \o SfsWords(snd.params, << "lpfResonanceValue", "lpfCutoffValue", "lpfCutoffSweepValue",
                               "hpfCutoffValue", "hpfCutoffSweepValue",
                               "phaserOffsetValue", "phaserSweepValue", "repeatSpeedValue" >>)
    \o (IF version >= 101
        THEN SfsWords(snd.params, << "changeSpeedValue", "changeAmountValue" >>)
        ELSE << >>)

\* sounds held by sfxr: every member different from the others, positive in
\* one sound and negative in the other
SfsPosition(name) == CHOOSE k \in 1..Len(FieldOrder) : FieldOrder[k] = name
SfsSounds ==
    { [ params |-> [ [ n \in FieldNames |-> sign * 10 * SfsPosition(n) ] EXCEPT
                       !.waveTypeValue = 2 + sign ],
        volumeValue |-> v, vibratoPhaseDelay |-> d, filterOn |-> b ] :
      sign \in { 1, -1 }, v \in { 200, 1000 }, d \in { 0, 250 }, b \in { 0, 1 } }

\* versions found in the first word of a file
SfsVersions == { 99, 100, 101, 102, 103 }

SfsInit ==
    /\ RenderIdle
    /\ params = DefaultParams(0)
    /\ regenerate = FALSE
    /\ randState = 0
    /\ disk = NoFile
    /\ diag = "none"
    /\ saved = NoRecord
    /\ op = "init"

\* sfxr writes the file
SfsFile ==
    /\ \E version \in SfsVersions : \E snd \in SfsSounds :
         /\ disk' = SfsBytes(version, snd)
         /\ saved' = [ version |-> version, sound |-> snd ]
    /\ op' = "sfs"
    /\ UNCHANGED << source, frame, volumeValue, cli, params, regenerate, randState, diag, renderVars, gens >>

\* params = LoadWaveParams(fileName) for a .sfs name (lines 1188-1251), and
\* the caller's regenerate = true
LoadSfsFile ==
    /\ \E opened \in { o \in BOOLEAN : o => disk # NoFile } :
         LET r == IF opened THEN LoadSfs(disk, volumeValue)
                  ELSE [ params |-> ZeroParams, vol |-> volumeValue, diag |-> "none" ]
         IN  /\ params' = r.params
             /\ volumeValue' = r.vol
             /\ diag' = r.diag
             /\ op' = IF opened THEN "load_sfs" ELSE "load_failed"
    /\ regenerate' = TRUE
    /\ UNCHANGED << source, frame, cli, randState, disk, saved, renderVars, gens >>

SfsNext ==
    \/ SfsFile
    \/ LoadSfsFile

SpecSfs == SfsInit /\ [][SfsNext]_vars

\* the members a version of the file does not hold
SfsAbsent(version) ==
    IF version >= 101 THEN { "randSeed" }
    ELSE { "randSeed", "deltaSlideValue", "changeSpeedValue", "changeAmountValue" }

\* C18: a .sfs file of version 100, 101 or 102 is read in one fixed order:
\* every member the version holds gets the file's value, deltaSlide,
\* changeSpeed and changeAmount are 0 before 101, the volume is the file's for
\* 102 and 0.5 otherwise, whatever the vibrato phase delay and the filter-on
\* flag in the file, which go to no member; any other version gives the
\* all-zero record and a message
C18_SfsLoad ==
    op = "load_sfs" =>
        IF saved.version \in { 100, 101, 102 }
        THEN /\ \A n \in FieldNames :
                  params[n] = (IF n \in SfsAbsent(saved.version) THEN 0
                               ELSE saved.sound.params[n])
             /\ volumeValue = (IF saved.version = 102 THEN saved.sound.volumeValue ELSE 500)
             /\ diag = "none"
        ELSE /\ params = ZeroParams
             /\ diag = "SFS file version not supported"

\* a version-100 file with a phase delay, the filter flag set and a delta
\* slide in the sound has been loaded
C18_Witness ==
    /\ op = "load_sfs"
    /\ saved.version = 100
    /\ saved.sound.vibratoPhaseDelay # 0 /\ saved.sound.filterOn = 1
    /\ params.deltaSlideValue = 0 /\ params.changeAmountValue = 0
    /\ params.repeatSpeedValue = -170
    /\ volumeValue = 500

\* ---------------------------------------------------------------------------
\* The generator buttons and the re-render request (SpecGen)
\* ---------------------------------------------------------------------------

\* a quotient rounded toward zero
Trunc(a, d) == IF a >= 0 THEN a \div d ELSE 0 - ((0 - a) \div d)

\* pow(x, 2.0f), pow(x, 3.0f), pow(x, 5.0f) in 1/Unit
Pow2(x) == (x * x) \div Unit
Pow3(x) == Trunc(x * x * x, Unit * Unit)
Pow5(x) == Trunc(Trunc(Pow3(x) * x, Unit) * x, Unit)

\* GenRandomize's assignments from its draws (lines 1651-1692), without the
\* three negations of lines 1660, 1661 and 1684; D(k) is the generator before
\* the k-th draw, n1 and n2 count the draws made so far
RandomizeDrawn(p, s) ==
    LET D(k) == RandAt(s, k)
        R(k) == frnd(D(k), 2000) - 1000
        c1 == GetRandomValue(D(2), 0, 1) # 0
        n1 == IF c1 THEN 4 ELSE 3
        at == Pow3(R(n1 + 6))
        su0 == Pow2(R(n1 + 7))
        de0 == R(n1 + 8)
        c2 == at + su0 + de0 < 200
        n2 == IF c2 THEN n1 + 12 ELSE n1 + 10
    IN  [ params |->
            [ p EXCEPT
                !.randSeed = GetRandomValue(D(0), 0, 65534),
                !.startFrequencyValue = IF c1 THEN Pow3(R(3)) + 500 ELSE Pow2(R(1)),
                !.minFrequencyValue = 0,
                !.slideValue = Pow5(R(n1)),
                !.deltaSlideValue = Pow3(R(n1 + 1)),
                !.squareDutyValue = R(n1 + 2),
                !.dutySweepValue = Pow3(R(n1 + 3)),
                !.vibratoDepthValue = Pow3(R(n1 + 4)),
                !.vibratoSpeedValue = R(n1 + 5),
                !.attackTimeValue = at,
                !.sustainTimeValue = IF c2 THEN su0 + 200 + frnd(D(n1 + 10), 300) ELSE su0,
                !.decayTimeValue = IF c2 THEN de0 + 200 + frnd(D(n1 + 11), 300) ELSE de0,
                !.sustainPunchValue = Pow2(frnd(D(n1 + 9), 800)),
                !.lpfResonanceValue = R(n2),
                !.lpfCutoffValue = 1000 - Pow3(frnd(D(n2 + 1), 1000)),
                !.lpfCutoffSweepValue = Pow3(R(n2 + 2)),
                !.hpfCutoffValue = Pow5(frnd(D(n2 + 3), 1000)),
                !.hpfCutoffSweepValue = Pow5(R(n2 + 4)),
                !.phaserOffsetValue = Pow3(R(n2 + 5)),
                !.phaserSweepValue = Pow3(R(n2 + 6)),
                !.repeatSpeedValue = R(n2 + 7),
                !.changeSpeedValue = R(n2 + 8),
                !.changeAmountValue = R(n2 + 9) ],
          rs |-> D(n2 + 10) ]

\* GenRandomize with the negation of line 1661 left out
GenRandomize_NoLowRule(p, s) ==
    LET d == RandomizeDrawn(p, s)
        sf == d.params.startFrequencyValue
        sl0 == d.params.slideValue
        lc == d.params.lpfCutoffValue
        ls0 == d.params.lpfCutoffSweepValue
    IN  [ params |->
            [ d.params EXCEPT
                !.slideValue = IF sf > 700 /\ sl0 > 200 THEN 0 - sl0 ELSE sl0,
                !.lpfCutoffSweepValue = IF lc < 100 /\ ls0 < 0 - 50 THEN 0 - ls0 ELSE ls0 ],
          rs |-> d.rs ]

\* GenRandomize (lines 1649-1695): the draws, and the negations of the slide
\* (lines 1660-1661) and of the low-pass sweep (line 1684), which draw nothing
GenRandomize(p, s) ==
    LET d == RandomizeDrawn(p, s)
        sf == d.params.startFrequencyValue
        sl0 == d.params.slideValue
        sl1 == IF sf > 700 /\ sl0 > 200 THEN 0 - sl0 ELSE sl0
        lc == d.params.lpfCutoffValue
        ls0 == d.params.lpfCutoffSweepValue
    IN  [ params |->
            [ d.params EXCEPT
                !.slideValue = IF sf < 200 /\ sl1 < 0 - 50 THEN 0 - sl1 ELSE sl1,
                !.lpfCutoffSweepValue = IF lc < 100 /\ ls0 < 0 - 50 THEN 0 - ls0 ELSE ls0 ],
          rs |-> d.rs ]

\* the members GenMutate goes through, in its order (lines 1700-1722)
MutateOrder ==
    << "startFrequencyValue", "slideValue", "deltaSlideValue", "squareDutyValue",
       "dutySweepValue", "vibratoDepthValue", "vibratoSpeedValue",
       "attackTimeValue", "sustainTimeValue", "decayTimeValue", "sustainPunchValue",
       "lpfResonanceValue", "lpfCutoffValue", "lpfCutoffSweepValue",
       "hpfCutoffValue", "hpfCutoffSweepValue", "phaserOffsetValue", "phaserSweepValue",
       "repeatSpeedValue", "changeSpeedValue", "changeAmountValue" >>

\* GenMutate makes at most one gate draw and one amount draw for each member
TapeLen == 2 * Len(MutateOrder)

RECURSIVE RandResults(_, _)
\* what the next n rand() calls return when the generator is in state s
RandResults(s, n) ==
    IF n = 0 THEN << >> ELSE << rand(s) >> \o RandResults(rand(s), n - 1)

\* the results GenMutate can draw from
RandTape(s) == RandResults(s, TapeLen)

\* GetRandomValue(0, 1) taken as a condition, x being what rand() returned
Gate(x) == (x % ((1 - 0) + 1)) + 0 # 0

\* frnd(0.1f) - 0.05f, x being what rand() returned
Amount(x) == ((((x % ((10000 - 0) + 1)) + 0) * 100) \div 10000) - 50

RECURSIVE MutateFrom_Clamped(_, _, _, _)
\* the members left, each sum kept within 0 and 1
MutateFrom_Clamped(p, tape, k, fields) ==
    IF fields = << >> THEN [ params |-> p, n |-> k ]
    ELSE IF Gate(tape[k + 1])
         THEN LET v == p[Head(fields)] + Amount(tape[k + 2])
                  c == IF v < 0 THEN 0 ELSE IF v > 1000 THEN 1000 ELSE v
              IN  MutateFrom_Clamped([ p EXCEPT ![Head(fields)] = c ], tape, k + 2, Tail(fields))
         ELSE MutateFrom_Clamped(p, tape, k + 1, Tail(fields))

RECURSIVE MutateFrom(_, _, _, _)
\* if (GetRandomValue(0, 1)) params.X += frnd(0.1f) - 0.05f; for the members
\* left, after k draws from the tape of rand() results; n counts the draws
MutateFrom(p, tape, k, fields) ==
    IF fields = << >> THEN [ params |-> p, n |-> k ]
    ELSE IF Gate(tape[k + 1])
         THEN MutateFrom([ p EXCEPT ![Head(fields)] = @ + Amount(tape[k + 2]) ],
                         tape, k + 2, Tail(fields))
         ELSE MutateFrom(p, tape, k + 1, Tail(fields))

\* GenMutate (lines 1698-1725)
GenMutate(p, s) ==
    LET r == MutateFrom(p, RandTape(s), 0, MutateOrder)
    IN  [ params |-> r.params, rs |-> RandAt(s, r.n) ]

\* a generator button that leaves regenerate as it finds it
GenButton_NoRequest(r) ==
    /\ pc = "idle"
    /\ gens < MaxGens
    /\ params' = r.params
    /\ randState' = r.rs
    /\ regenerate' = regenerate
    /\ gens' = gens + 1
    /\ source' = randState
    /\ UNCHANGED << frame, volumeValue, cli, fileVars, renderVars >>

\* one of the nine buttons is pressed (lines 529-537): the generator runs
\* and ends with regenerate = true
GenButton(r) ==
    /\ pc = "idle"
    /\ gens < MaxGens
    /\ params' = r.params
    /\ randState' = r.rs
    /\ regenerate' = TRUE
    /\ gens' = gens + 1
    /\ source' = randState
    /\ UNCHANGED << frame, volumeValue, cli, fileVars, renderVars >>

PresetButton(name) == GenButton(Preset(name, params, randState)) /\ op' = "preset"
RandomizeButton == GenButton(GenRandomize(params, randState)) /\ op' = "randomize"
MutateButton == GenButton(GenMutate(params, randState)) /\ op' = "mutate"

\* the program after its start without an input file, the record reset (lines
\* 359-371), or after a parameter file dropped on the window has then been
\* loaded and regenerate set (lines 405-406)
GenInit ==
    /\ RenderIdle
    /\ \E s \in RandInits :
         LET r == ResetWaveParams(ZeroParams, s)
         IN  \/ params = r.params /\ randState = r.rs /\ regenerate = FALSE
             \/ params = ForeignRecord /\ randState = s /\ regenerate = TRUE
    /\ disk = NoFile
    /\ diag = "none"
    /\ saved = NoRecord
    /\ op = "init"

GenNext ==
    \/ \E name \in PresetNames : PresetButton(name)
    \/ RandomizeButton
    \/ MutateButton
    \/ CountBegin
    \/ CountStep
    \/ CountRun
    \/ CountEnd

SpecGen == GenInit /\ [][GenNext]_vars

\* C15: every step in which one of the nine generators has run ends with
\* regenerate raised, whatever it drew; a raised regenerate is cleared only
\* by the step in which the main loop's GenerateWave call returns the wave
\* rendered from the parameters current at that step
C15_RequestRaisedAndServed ==
    /\ [][gens' # gens =>
            (regenerate' /\ op' \in { "preset", "randomize", "mutate" })]_vars
    /\ [][(regenerate /\ ~regenerate') =>
            /\ op' = "end"
            /\ calls' = calls + 1
            /\ gw.params = ClampParams(params)
            /\ params' = params
            /\ ~wave'.null]_vars

\* the request a generator raised has been served by a render of the
\* parameters it left
C15_Witness ==
    /\ Returned /\ gens > 0
    /\ ~regenerate
    /\ gw.params = ClampParams(params)
    /\ calls = 1 /\ produced > 0

\* C16: the record randomize leaves is the one it would leave from any other
\* prior record: every member, wave shape and minimum frequency included, is
\* newly assigned
C16_RandomizeIgnoresPrior ==
    [][(gens' # gens /\ op' = "randomize") =>
         params' = GenRandomize(ZeroParams, randState).params]_vars

\* ---------------------------------------------------------------------------
\* Repeat, tone change and frequency floor (SpecRender, SpecLength)
\* ---------------------------------------------------------------------------

\* the locals the repeat reset assigns (lines 999-1018)
ResetLocals ==
    { "repeatTime", "fperiod", "period", "fmaxperiod", "fslide", "fdslide",
      "squareDuty", "squareSlide", "arpeggioModulation", "arpeggioTime",
      "arpeggioLimit" }

\* the locals as the next iteration finds them after repeatTime++
Ticked == [ gw EXCEPT !.repeatTime = @ + 1 ]

\* the next iteration takes the repeat reset
ResetDue ==
    /\ pc = "loop" /\ gw.generatingSample /\ gw.i < MaxSamples
    /\ gw.repeatLimit # 0 /\ gw.repeatTime + 1 >= gw.repeatLimit

\* C21: a repeat reset gives the period, slide, delta slide, duty and tone
\* change locals the values of their initial computation and changes no other
\* local (envelope stage and time, filter states and cutoffs, phaser offset
\* and write position, vibrato phase, oscillator phase); the sample it runs in
\* steps the envelope, the phaser and the vibrato from where they stood; with
\* repeatSpeed == 0 no reset happens in the render
C21_RepeatResetFrame ==
    /\ [](ResetDue =>
            LET r == RepeatReset(Ticked)
                init == GenerateWaveInit(params, "ok")
            IN  /\ \A f \in (DOMAIN gw) \ ResetLocals : r[f] = gw[f]
                /\ \A f \in ResetLocals : r[f] = init[f])
    /\ [][(ResetDue /\ op' = "step" /\ pc' = "loop") =>
            /\ gw'.repeatTime = 0
            /\ gw'.envelopeStage = StepEnvelope(gw).envelopeStage
            /\ gw'.envelopeTime = StepEnvelope(gw).envelopeTime
            /\ gw'.fphase = gw.fphase + gw.fdphase
            /\ gw'.ipp = (gw.ipp + MAX_SUPERSAMPLING) % 1024
            /\ gw'.vibratoPhase = StepPeriod(gw).vibratoPhase
            /\ gw'.flthp = StepVolume(gw).flthp]_vars
    /\ []((pc = "loop" /\ params.repeatSpeedValue = 0) =>
            (gw.repeatLimit = 0 /\ gw.repeatTime = gw.i))

\* a repeat reset has run in the sustain stage of a render with vibrato,
\* phaser and both filters
C21_Witness ==
    /\ JustRepeated
    /\ gw.envelopeStage = 1 /\ gw.envelopeTime > 0
    /\ gw.vibratoPhase > 0 /\ gw.fphase # 0 /\ gw.ipp # 0

\* floor((1 - changeSpeed)^2 * 20000 + 32) for the stored changeSpeed
ToneChangeSample ==
    (((1000 - params.changeSpeedValue) * (1000 - params.changeSpeedValue)) \div 50) + 32

\* the period after the slide step of lines 1030-1035 on the period x
Slid(x) ==
    LET y == MulMicro(x, gw.fslide + gw.fdslide)
    IN  IF y > gw.fmaxperiod THEN gw.fmaxperiod ELSE y

\* C22: with repeat disabled the running period is multiplied by the tone
\* change factor in output sample number floor((1-changeSpeed)^2*20000+32) of
\* the render and in no other, so at most once, and in none when
\* changeSpeed == 1
C22_ToneChangeOnce ==
    [][(op' = "step" /\ pc' = "loop" /\ gw.repeatLimit = 0) =>
         IF gw'.i = ToneChangeSample /\ params.changeSpeedValue # 1000
         THEN /\ gw'.fperiod = Slid(MulMicro(gw.fperiod, gw.arpeggioModulation))
              /\ gw.arpeggioLimit = ToneChangeSample /\ gw'.arpeggioLimit = 0
         ELSE /\ gw'.fperiod = Slid(gw.fperiod)
              /\ gw'.arpeggioLimit = gw.arpeggioLimit]_vars

\* the tone change has been applied in sample 32 of a render without repeat
C22_Witness ==
    /\ op = "step" /\ pc = "loop" /\ gw.repeatLimit = 0
    /\ gw.i = 32 /\ ToneChangeSample = 32
    /\ gw.arpeggioLimit = 0
    /\ gw.fperiod < PeriodOf(params.startFrequencyValue)

\* the running period of the next iteration before line 1033 compares it
Running == LET g == StepTone(gw) IN MulMicro(g.fperiod, g.fslide + g.fdslide)

\* C23: a running period above the maximum period derived from minFrequency
\* is set to that maximum, and the render stops at that output sample if and
\* only if the render-time minFrequency is > 0; with minFrequency <= 0 a
\* render is stopped by the envelope or the ten-second bound only
C23_FrequencyFloor ==
    /\ [][(op' = "step" /\ pc' = "loop") =>
            LET floor == gw.params.minFrequencyValue > 0
                ended == gw'.envelopeStage = 3
            IN  IF Running > gw'.fmaxperiod
                THEN /\ gw'.fperiod = gw'.fmaxperiod
                     /\ ~gw'.generatingSample <=> (floor \/ ended)
                ELSE /\ gw'.fperiod = Running
                     /\ ~gw'.generatingSample <=> ended]_vars
    /\ []((Returned /\ ~wave.null /\ gw.params.minFrequencyValue <= 0)
            => (gw.envelopeStage = 3 \/ gw.i = MaxSamples))
    /\ []((Returned /\ ~wave.null /\ gw.envelopeStage < 3 /\ gw.i < MaxSamples)
            => (gw.fperiod = gw.fmaxperiod /\ wave.sampleCount = gw.i))

\* a render has been stopped at the frequency floor in its sustain stage
C23_Witness ==
    /\ Returned /\ ~wave.null
    /\ gw.envelopeStage = 1
    /\ gw.params.minFrequencyValue > 0
    /\ gw.fperiod = gw.fmaxperiod
    /\ wave.sampleCount = produced /\ produced > 0

\* ---------------------------------------------------------------------------
\* Accesses to phaserBuffer[1024] and noiseBuffer[32] (SpecRender)
\* ---------------------------------------------------------------------------

\* the locals of the next iteration when its supersampling loop starts
BeforePasses == StepVolume(StepEnvelope(StepPeriod(StepFrequency(gw))))

\* the supersampling loop of the next iteration after k passes
AfterPasses(k) ==
    SuperSample([ g |-> [ BeforePasses EXCEPT !.ssample = 0 ],
                  pb |-> phaserBuffer, nb |-> noiseBuffer, rs |-> randState ], k)

\* C24: in every pass of every iteration the phaser delay is an integer in
\* [0, 1023], the write index and the delayed read index of the delay line
\* are in [0, 1023], 0 <= phase < period after the wrap step, and the noise
\* table index phase*32/period is in [0, 31]
C24_BufferAccessInBounds ==
    (pc = "loop" /\ gw.generatingSample /\ gw.i < MaxSamples) =>
        /\ BeforePasses.iphase \in 0..1023
        /\ \A k \in 1..MAX_SUPERSAMPLING :
             LET x == AfterPasses(k)
             IN  /\ x.widx \in 0..1023
                 /\ x.ridx \in 0..1023
                 /\ x.g.ipp \in 0..1023
                 /\ x.g.phase >= 0 /\ x.g.phase < x.g.period
                 /\ ((x.g.phase * 32) \div x.g.period) \in 0..31

\* a noise render whose phaser offset has swept past 1023 reads the delay
\* line 1023 entries back, behind the write position
C24_Witness ==
    /\ op = "step" /\ pc = "loop"
    /\ gw.params.waveTypeValue = 3
    /\ gw.fphase > 1023 * 1000 /\ gw.iphase = 1023
    /\ gw.ipp < gw.iphase

\* ---------------------------------------------------------------------------
\* GenRandomize on every state of the generator (SpecRandomize)
\* ---------------------------------------------------------------------------

\* the states of the generator behind rand()
RandStates == 0..32767

RandomizeInit ==
    /\ RenderIdle
    /\ params = DefaultParams(0)
    /\ regenerate = FALSE
    /\ randState \in RandStates
    /\ disk = NoFile
    /\ diag = "none"
    /\ saved = NoRecord
    /\ op = "init"

RandomizeNext == RandomizeButton

SpecRandomize == RandomizeInit /\ [][RandomizeNext]_vars

\* C25: after randomize, whatever it drew, none of these holds:
\* startFrequency > 0.7 and slide > 0.2; startFrequency < 0.2 and
\* slide < -0.05; lpfCutoff < 0.1 and lpfCutoffSweep < -0.05
C25_RandomizeRules ==
    op = "randomize" =>
        /\ ~(params.startFrequencyValue > 700 /\ params.slideValue > 200)
        /\ ~(params.startFrequencyValue < 200 /\ params.slideValue < 0 - 50)
        /\ ~(params.lpfCutoffValue < 100 /\ params.lpfCutoffSweepValue < 0 - 50)

\* randomize has drawn a start frequency under 0.2 with a slide under -0.05
\* and has negated the slide
C25_Witness ==
    /\ op = "randomize"
    /\ LET d == RandomizeDrawn(DefaultParams(0), source).params
       IN  /\ d.startFrequencyValue < 200 /\ d.slideValue < 0 - 50
           /\ params.slideValue = 0 - d.slideValue

\* ---------------------------------------------------------------------------
\* GenMutate on chosen results of rand() (SpecMutate)
\* ---------------------------------------------------------------------------

MaxMutates == 3

\* the members GenMutate goes through
MutateFields == { MutateOrder[i] : i \in 1..Len(MutateOrder) }

ConstTape(x) == [ k \in 1..TapeLen |-> x ]

\* results of rand(): always 0; always 1 (every gate open, every amount
\* -0.05); 1 and 10000 in turn (every gate open, every amount +0.05); 0, 1
\* and 5001 in turn (gates closed and open); and what the generator gives
MutateTapes ==
    { ConstTape(0), ConstTape(1),
      [ k \in 1..TapeLen |-> IF k % 2 = 1 THEN 1 ELSE 10000 ],
      [ k \in 1..TapeLen |-> IF k % 3 = 1 THEN 0 ELSE IF k % 3 = 2 THEN 1 ELSE 5001 ] }
    \cup { RandTape(s) : s \in RandInits }

\* records GenMutate is applied to
MutateInputs == { DefaultParams(4660), ForeignRecord }

MutateInit ==
    /\ RenderIdle
    /\ params \in MutateInputs
    /\ regenerate = FALSE
    /\ randState = 0
    /\ disk = NoFile
    /\ diag = "none"
    /\ saved = NoRecord
    /\ op = "init"

\* the Mutate button is pressed (line 536), rand() returning the tape's values
MutateCall(tape) ==
    /\ pc = "idle"
    /\ gens < MaxMutates
    /\ params' = MutateFrom(params, tape, 0, MutateOrder).params
    /\ regenerate' = TRUE
    /\ gens' = gens + 1
    /\ source' = tape
    /\ op' = "mutate"
    /\ UNCHANGED << frame, randState, volumeValue, cli, fileVars, renderVars >>

MutateNext == \E tape \in MutateTapes : MutateCall(tape)

SpecMutate == MutateInit /\ [][MutateNext]_vars

\* C26: one mutate call changes each member by an added amount in
\* [-0.05, 0.05] and never clamps (with every amount -0.05 each member it
\* goes through ends 0.05 lower, below 0 included); a member whose gate draw
\* is 0 keeps its value, so with rand() always 0 the record is left as it was,
\* call after call; randSeed, waveTypeValue and minFrequencyValue (every
\* member it does not go through) are never changed
C26_MutateAddsSmallAmounts ==
    [][gens' # gens =>
        /\ \A f \in MutateFields : params'[f] - params[f] \in (0 - 50)..50
        /\ \A f \in FieldNames \ MutateFields : params'[f] = params[f]
        /\ { "randSeed", "waveTypeValue", "minFrequencyValue" } \cap MutateFields = {}
        /\ (source' = ConstTape(1)) =>
               \A f \in MutateFields : params'[f] = params[f] - 50
        /\ ~Gate(source'[1]) => params'.startFrequencyValue = params.startFrequencyValue
        /\ (source' = ConstTape(0)) => params' = params]_vars

\* a third call with rand() always 0 has left the record as two calls with
\* every amount -0.05 made it, attack time and punch below 0
C26_Witness ==
    /\ op = "mutate"
    /\ gens = 3
    /\ source = ConstTape(0)
    /\ \E q \in MutateInputs :
         /\ \A f \in MutateFields : params[f] = q[f] - 100
         /\ \A f \in FieldNames \ MutateFields : params[f] = q[f]
    /\ params.attackTimeValue < 0
    /\ params.sustainPunchValue < 0

\* ---------------------------------------------------------------------------
\* The divisors of the envelope volume (SpecRender)
\* ---------------------------------------------------------------------------

\* the iteration just run has computed the envelope volume of stage s (lines
\* 1068-1070)
VolumeComputed(s) == op = "step" /\ pc = "loop" /\ gw.envelopeStage = s

\* C27: whenever an iteration computes the envelope volume of stage s in
\* {0, 1, 2}, its divisor envelopeLength[s] is > 0
C27_EnvelopeDivisorPositive ==
    \A s \in 0..2 : VolumeComputed(s) => gw.envelopeLength[s + 1] > 0

\* ---------------------------------------------------------------------------
\* Generator buttons frame after frame, each followed by its render
\* (SpecSequence)
\* ---------------------------------------------------------------------------

MaxWalk == 20

\* results of rand() that close the gates of every member but attackTimeValue,
\* sustainTimeValue and decayTimeValue (the 8th to 10th) and add 0.05 to these
EnvelopeUp ==
    [ k \in 1..TapeLen |->
        IF k \in { 8, 10, 12 } THEN 1 ELSE IF k \in { 9, 11, 13 } THEN 10000 ELSE 0 ]

\* the Mutate button (line 536) in a frame whose regenerate block (lines
\* 449-464) has rendered the record, rand() returning the tape's values
MutateAgain(tape) ==
    /\ pc = "idle"
    /\ ~regenerate
    /\ gens > 0
    /\ gens < MaxWalk
    /\ params' = MutateFrom(params, tape, 0, MutateOrder).params
    /\ regenerate' = TRUE
    /\ gens' = gens + 1
    /\ source' = tape
    /\ op' = "mutate"
    /\ UNCHANGED << frame, randState, volumeValue, cli, fileVars, renderVars >>

SequenceNext ==
    \/ \E name \in PresetNames : PresetButton(name)
    \/ RandomizeButton
    \/ MutateButton
    \/ MutateAgain(EnvelopeUp)
    \/ CountBegin
    \/ CountStep
    \/ CountRun
    \/ CountEnd

SpecSequence == PresetInit /\ [][SequenceNext]_vars

\* C28: after any sequence of preset, randomize and mutate operations from a
\* reset record, the render of the current record returns sampleCount > 0
C28_SequenceRenderNotEmpty ==
    (pc = "idle" /\ op = "end" /\ calls > 0 /\ gens > 0) => wave.sampleCount > 0

\* ---------------------------------------------------------------------------
\* Repeat and tone change together (SpecRender)
\* ---------------------------------------------------------------------------

\* the next iteration applies the tone change (lines 997-1024)
ToneDue ==
    LET g1 == Ticked
        g2 == IF g1.repeatLimit # 0 /\ g1.repeatTime >= g1.repeatLimit
              THEN RepeatReset(g1)
              ELSE g1
    IN  g2.arpeggioLimit # 0 /\ g2.arpeggioTime + 1 >= g2.arpeggioLimit

\* C29: with repeat enabled the repeat reset runs in output samples
\* repeatLimit, 2*repeatLimit, 3*repeatLimit, ... and in no other; the tone
\* change is applied in sample arpeggioLimit before the first reset and
\* arpeggioLimit - 1 samples after each reset, so at most once between two
\* resets; with arpeggioLimit > repeatLimit it is applied in no sample
C29_RepeatAndToneChange ==
    [][(op' = "step" /\ pc' = "loop" /\ gw.repeatLimit # 0) =>
         LET n == gw'.i
             L == gw.repeatLimit
             on == params.changeSpeedValue # 1000
             A == ToneChangeSample
             reset == n % L = 0
             tone == on /\ (IF n < L THEN n = A ELSE n % L = A - 1)
         IN  /\ L = LimitOf(params.repeatSpeedValue) /\ gw'.repeatLimit = L
             /\ ResetDue <=> reset
             /\ gw'.repeatTime = n % L
             /\ ToneDue <=> tone
             /\ gw'.arpeggioLimit = IF tone THEN 0
                                    ELSE IF reset THEN (IF on THEN A ELSE 0)
                                    ELSE gw.arpeggioLimit
             /\ (on /\ A > L) => (~ToneDue /\ gw'.arpeggioLimit = A)]_vars

\* the tone change has been applied a second time, 31 samples after the first
\* repeat reset
C29_Witness ==
    /\ op = "step" /\ pc = "loop"
    /\ gw.repeatLimit = 64 /\ ToneChangeSample = 32
    /\ gw.i = 64 + 31
    /\ gw.arpeggioLimit = 0 /\ gw.arpeggioTime = 32
    /\ gw.fperiod < PeriodOf(params.startFrequencyValue)

\* ---------------------------------------------------------------------------
\* The frames of the main loop (SpecFrame)
\* ---------------------------------------------------------------------------

\* the statement groups of one frame in the order the loop runs them: the
\* dropped file (lines 398-412), Ctrl+O (line 419), Ctrl+E (line 420), the
\* regenerate block (lines 452-464), the controls (lines 529-559)
FrameAfter(at) ==
    CASE at = "drop" -> "keys"
      [] at = "keys" -> "export"
      [] at = "export" -> "regenerate"
      [] at = "regenerate" -> "gui"
      [] at = "gui" -> "drop"

\* params = LoadWaveParams(name); regenerate = true; (lines 405-406, 1385-1386)
\* for a well-formed parameter file
FrameLoad(at) ==
    /\ pc = "idle"
    /\ frame = at
    /\ params' = ForeignRecord
    /\ regenerate' = TRUE
    /\ frame' = FrameAfter(at)
    /\ op' = "load"
    /\ UNCHANGED << source, randState, gens, volumeValue, cli, fileVars, renderVars >>

\* a parameter file has been dropped on the window
FrameDrop == FrameLoad("drop")

\* Ctrl+O, or the Load Sound button (line 539), and a file chosen in the dialog
FrameLoadSound == FrameLoad("keys") \/ FrameLoad("gui")

\* DialogExportWave(wave) is called on the caller's wave (lines 420, 541)
FrameExport(at) ==
    /\ pc = "idle"
    /\ frame = at
    /\ frame' = FrameAfter(at)
    /\ op' = "export"
    /\ UNCHANGED << source, params, regenerate, randState, gens, volumeValue, cli,
                    fileVars, renderVars >>

\* Ctrl+E
FrameKeyExport == FrameExport("export")

\* the Export .Wav button
FrameButtonExport == FrameExport("gui")

\* the regenerate block is entered (line 452, regenerate being true; the
\* entry by a mouse release over the sliders is left out), in a run of at most
\* MaxCalls renders
FrameRenderBegin == frame = "regenerate" /\ calls < MaxCalls /\ CountBegin

\* one of the nine generator buttons (lines 529-537)
FrameGenerator ==
    /\ frame = "gui"
    /\ frame' = FrameAfter("gui")
    /\ \E b \in PresetNames \cup { "GenRandomize", "GenMutate" } :
         LET r == IF b = "GenRandomize" THEN GenRandomize(params, randState)
                  ELSE IF b = "GenMutate" THEN GenMutate(params, randState)
                  ELSE Preset(b, params, randState)
         IN  /\ pc = "idle"
             /\ gens < MaxGens
             /\ params' = r.params
             /\ randState' = r.rs
             /\ regenerate' = TRUE
             /\ gens' = gens + 1
             /\ source' = randState
             /\ op' = "generator"
    /\ UNCHANGED << volumeValue, cli, fileVars, renderVars >>

\* the wave type toggle group leaves another wave type (lines 557-559)
FrameWaveType ==
    /\ pc = "idle"
    /\ frame = "gui"
    /\ \E v \in 0..3 :
         /\ v # params.waveTypeValue
         /\ params' = [ params EXCEPT !.waveTypeValue = v ]
    /\ regenerate' = TRUE
    /\ frame' = FrameAfter("gui")
    /\ op' = "edit"
    /\ UNCHANGED << source, randState, gens, volumeValue, cli, fileVars, renderVars >>

\* nothing happens at this point of the frame: no file dropped, key not
\* pressed, regenerate false, no control used
FramePass ==
    /\ pc = "idle"
    /\ frame = "regenerate" => ~regenerate
    /\ frame' = FrameAfter(frame)
    /\ op' = "pass"
    /\ UNCHANGED << source, params, regenerate, randState, gens, volumeValue, cli,
                    fileVars, renderVars >>

\* the regenerate block has run: the frame goes on with the controls
FrameRenderEnd ==
    /\ frame = "regenerate"
    /\ CountEnd

FrameNext ==
    \/ FrameDrop
    \/ FrameLoadSound
    \/ FrameKeyExport
    \/ FrameButtonExport
    \/ FrameRenderBegin
    \/ CountStep
    \/ CountRun
    \/ FrameRenderEnd
    \/ FrameGenerator
    \/ FrameWaveType
    \/ FramePass

SpecFrame == PresetInit /\ [][FrameNext]_vars

\* C30: whenever DialogExportWave is called, by Ctrl+E or by the Export
\* button, regenerate is false: the wave it is given was rendered from the
\* record as the last generator, file load or wave type change left it
C30_ExportAfterRender ==
    op = "export" =>
        /\ ~regenerate
        /\ (calls > 0 => gw.params = ClampParams(params))

====
